---------------------------- MODULE Spec2Model ----------------------------
(***************************************************************************)
(* State-machine model of the cooking assistant application.               *)
(*                                                                         *)
(*   SpecTts      TextToSpeechService (docs/VOICE_INTEGRATION.md): the     *)
(*                queue and the isSpeaking flag around expo-speech.        *)
(*   Spec         a chat screen from its mount (frontend/app/chat.tsx and  *)
(*                the text-only RecipeVoiceScreen): conversation turns,    *)
(*                hosted model call, speech output, recording.             *)
(*   SpecInput    the YouTube link screen: validation, identifier          *)
(*                extraction, oEmbed / captions / classifier, navigation.  *)
(*   SpecApp      the link screen together with the chat screens.          *)
(*   SpecExtract  extractVideoId applied to a family of links.             *)
(*   SpecDetect   CommandDetectionService (docs/VOICE_INTEGRATION.md):     *)
(*                detectCommand and handleCommand on a family of           *)
(*                utterances.                                              *)
(*   SpecSession  TextToSpeechService as useVoiceSession drives it: speak  *)
(*                calls and stopSession (stop, then clearQueue).           *)
(*   SpecQueueLive  TextToSpeechService without clearQueue, with fairness  *)
(*                of the platform's callbacks, for liveness.               *)
(*   SpecEnv      utils/env.ts: loadEnvFromFile over a file system, with   *)
(*                overlapping calls and failing file operations.           *)
(*   SpecCook     CookingSession: advanceStep, goToPreviousStep and        *)
(*                processUserInput.                                        *)
(*   SpecLife     a chat screen from its mount to its unmount.             *)
(*   SpecInputFaults  the link screen where router.push may throw.         *)
(*                                                                         *)
(* User events are delivered as React Native delivers them: a press        *)
(* reaches a button only while it is enabled and no other button is held,  *)
(* a disabled or non-editable control takes no input, and state set by a   *)
(* handler is rendered before the next user event.                         *)
(*                                                                         *)
(* Text is a sequence of one-character strings, so that trimming, prefix   *)
(* tests and pattern matching are computed and not assumed.                *)
(***************************************************************************)
EXTENDS Integers, Sequences, FiniteSets, TLC

VARIABLES
    \* ---- TextToSpeechService -------------------------------------------
    ttsIsSpeaking,   \* this.isSpeaking
    ttsQueue,        \* this.queue (utterance ids, in submission order)
    ttsPlaying,      \* utterances handed to Speech.speak, neither done nor stopped
    ttsPending,      \* continuations waiting on `await Speech.stop()`, FIFO
    ttsSubs,         \* history: every speak() call, indexed by utterance id
    ttsLog,          \* history: start / done / halt events of the primitive
    ttsCalls,        \* history: number of explicit stop() and clearQueue() calls,
                     \*          and the stopSession calls
    \* ---- chat screens (ChatScreen, RecipeVoiceScreen) -------------------
    route,           \* the screen in front: "input", "chat" or "voice"
    params,          \* route parameters the chat screen was pushed with
    cs,              \* the chat screen's React state, see ChatMount
    chains,          \* suspended handlers of the chat screen (awaiting a promise)
    setupPc,         \* position of the mount effect's setup()
    env,             \* the world of a run: GOOGLE_API_KEY, Whisper module, service answers
    \* ---- YouTube link screen (YouTubeInputScreen) -----------------------
    inp,             \* the link screen's React state, see InputMount
    inChains,        \* suspended handleSubmit calls of the link screen
    \* ---- identifier extraction on its own -------------------------------
    exIn,            \* the link handed to extractVideoId and how it was built
    exOut,           \* what extractVideoId returned for it
    \* ---- CommandDetectionService ---------------------------------------
    cmdIn,           \* the utterance handed to detectCommand and how it was built
    cmdOut,          \* the command detected for it and handleCommand's reply
    \* ---- utils/env.ts ---------------------------------------------------
    envCache,        \* the module's envCache: a function from variable names to values
    isInitialized,   \* the module's isInitialized
    envFs,           \* the world of a run: Platform.OS and the file at each location
    envCalls,        \* the loadEnvFromFile calls made so far, suspended or returned
    envLoaded,       \* history: the names whose value in envCache was parsed from a file
    \* ---- CookingSession -------------------------------------------------
    recipe,          \* this.recipe
    currentStep,     \* this.currentStep
    progress,        \* this.progress
    cookCalls        \* processUserInput calls awaiting the chain, and the last call made

ttsVars == <<ttsIsSpeaking, ttsQueue, ttsPlaying, ttsPending, ttsSubs, ttsLog, ttsCalls>>

chatVars == <<route, params, cs, chains, setupPc, env>>

inputVars == <<inp, inChains>>

exVars == <<exIn, exOut>>

cmdVars == <<cmdIn, cmdOut>>

envVars == <<envCache, isInitialized, envFs, envCalls, envLoaded>>

cookVars == <<recipe, currentStep, progress, cookCalls>>

vars == <<ttsVars, chatVars, inputVars, exVars, cmdVars, envVars, cookVars>>

(***************************************************************************)
(* Bounds of the model.                                                    *)
(***************************************************************************)
MaxUtter == 4      \* speak() calls in one behaviour
MaxStops == 1      \* explicit stop() calls in one behaviour
MaxClears == 1     \* clearQueue() calls in one behaviour
MaxTurns == 2      \* conversation turns started on a chat screen
MaxRecs == 2       \* recordings the microphone button asks for
MaxSessionUtter == 3   \* speak() calls in a behaviour with a session stop
MaxCancels == 1    \* stopSession calls in one behaviour
MaxLoads == 2      \* loadEnvFromFile calls in one behaviour
MaxFiles == 1      \* locations that hold a .env file
MaxErrors == 1     \* errors thrown inside loadEnvFromFile in one behaviour
MaxSteps == 4      \* steps of the recipe of a CookingSession
MaxChainCalls == 2 \* processUserInput calls in one behaviour

(***************************************************************************)
(* Generic helpers on sequences.                                           *)
(***************************************************************************)
Range(s) == {s[i] : i \in 1..Len(s)}

IsPrefix(s, t) == Len(s) <= Len(t) /\ SubSeq(t, 1, Len(s)) = s

\* index of the first event of the log that satisfies ev/id, 0 when there is none
FirstIdx(lg, ev, id) ==
    LET hits == {i \in 1..Len(lg) : lg[i].ev = ev /\ lg[i].id = id}
    IN  IF hits = {} THEN 0 ELSE CHOOSE i \in hits : \A j \in hits : i <= j

(***************************************************************************)
(* TextToSpeechService                                                     *)
(***************************************************************************)
\* the value TextToSpeechService starts with (field initialisers)
InitTts ==
    /\ ttsIsSpeaking = FALSE
    /\ ttsQueue = <<>>
    /\ ttsPlaying = <<>>
    /\ ttsPending = <<>>
    /\ ttsSubs = <<>>
    /\ ttsLog = <<>>
    /\ ttsCalls = [stop |-> 0, clear |-> 0, cancels |-> <<>>]

\* Speech.speak(text, {onDone}): the primitive takes the utterance; the
\* platform plays what it was handed in order and reports each end by onDone.
SpeechSpeak(st, id) ==
    [st EXCEPT !.playing = Append(@, id),
               !.log = Append(@, [ev |-> "start", id |-> id])]

\* Speech.stop(): every utterance the primitive holds is halted; a halted
\* utterance ends by onStopped, its onDone is never invoked.
SpeechStop(st) ==
    [st EXCEPT !.playing = <<>>,
               !.log = @ \o [i \in 1..Len(st.playing) |->
                               [ev |-> "halt", id |-> st.playing[i]]]]

\* private async processQueue(): nothing when the queue is empty or the flag
\* is set; otherwise shift the head and, when the text is truthy (a non-empty
\* string), set the flag and hand it to Speech.speak.
processQueue(st) ==
    IF st.queue = <<>> \/ st.isSpeaking
    THEN st
    ELSE LET next == Head(st.queue)
             st1  == [st EXCEPT !.queue = Tail(@)]
         IN  IF st.subs[next].empty
             THEN st1
             ELSE SpeechSpeak([st1 EXCEPT !.isSpeaking = TRUE], next)

\* the service's fields and histories as one record, and back
TtsState ==
    [isSpeaking |-> ttsIsSpeaking, queue |-> ttsQueue, playing |-> ttsPlaying,
     subs |-> ttsSubs, log |-> ttsLog]

TtsSet(st) ==
    /\ ttsIsSpeaking' = st.isSpeaking
    /\ ttsQueue' = st.queue
    /\ ttsPlaying' = st.playing
    /\ ttsSubs' = st.subs
    /\ ttsLog' = st.log

\* what a speak() call is remembered by
Submission(prio, empty) ==
    [prio |-> prio, empty |-> empty,
     playingAtSubmit |-> ttsPlaying, waitingAtSubmit |-> ttsQueue]

\* speak(text, false): push, then processQueue() when the flag is clear
SpeakNormal(empty) ==
    /\ Len(ttsSubs) < MaxUtter
    /\ LET id  == Len(ttsSubs) + 1
           st0 == [TtsState EXCEPT !.subs = Append(@, Submission(FALSE, empty)),
                                   !.queue = Append(@, id)]
       IN  TtsSet(IF ~st0.isSpeaking THEN processQueue(st0) ELSE st0)
    /\ UNCHANGED <<ttsPending, ttsCalls>>

\* speak(text, true), up to its await: this.stop() calls Speech.stop() and
\* the caller is suspended until that promise settles
SpeakPriority(empty) ==
    /\ Len(ttsSubs) < MaxUtter
    /\ LET id  == Len(ttsSubs) + 1
           st0 == [TtsState EXCEPT !.subs = Append(@, Submission(TRUE, empty))]
       IN  TtsSet(SpeechStop(st0))
    /\ ttsPending' = Append(ttsPending, [kind |-> "speak", id |-> Len(ttsSubs) + 1])
    /\ UNCHANGED ttsCalls

\* stop(), up to its await
Stop ==
    /\ ttsCalls.stop < MaxStops
    /\ TtsSet(SpeechStop(TtsState))
    /\ ttsPending' = Append(ttsPending, [kind |-> "stop", id |-> 0])
    /\ ttsCalls' = [ttsCalls EXCEPT !.stop = @ + 1]

\* mutant of clearQueue: the queue is left as it is
clearQueueKeep(st) == st

\* clearQueue(): this.queue = []
clearQueue(st) == [st EXCEPT !.queue = <<>>]

\* the rest of stop() after `await Speech.stop()`; for a priority speak then
\* the rest of speak(): isSpeaking = true; Speech.speak; for stopSession then
\* ttsService.clearQueue()
StopSettles ==
    /\ ttsPending # <<>>
    /\ LET k   == Head(ttsPending)
           st0 == [TtsState EXCEPT !.isSpeaking = FALSE]
       IN  /\ TtsSet(IF k.kind = "speak"
                     THEN SpeechSpeak([st0 EXCEPT !.isSpeaking = TRUE], k.id)
                     ELSE IF k.kind = "session" THEN clearQueue(st0)
                     ELSE st0)
           /\ ttsCalls' = IF k.kind = "session"
                          THEN [ttsCalls EXCEPT !.cancels[k.id].doneAt = Len(ttsLog)]
                          ELSE ttsCalls
    /\ ttsPending' = Tail(ttsPending)

\* useVoiceSession.stopSession, from `await ttsService.stop()` up to the await
\* inside stop(): Speech.stop() is called and the caller suspended
StopSession ==
    /\ Len(ttsCalls.cancels) < MaxCancels
    /\ TtsSet(SpeechStop(TtsState))
    /\ ttsPending' = Append(ttsPending, [kind |-> "session", id |-> Len(ttsCalls.cancels) + 1])
    /\ ttsCalls' = [ttsCalls EXCEPT
                      !.cancels = Append(@, [before |-> Len(ttsSubs), doneAt |-> -1])]

\* clearQueue()
ClearQueue ==
    /\ ttsCalls.clear < MaxClears
    /\ ttsQueue' = <<>>
    /\ ttsCalls' = [ttsCalls EXCEPT !.clear = @ + 1]
    /\ UNCHANGED <<ttsIsSpeaking, ttsPlaying, ttsPending, ttsSubs, ttsLog>>

\* onDone of the utterance the platform is playing: clear the flag, then
\* processQueue()
OnDone ==
    /\ ttsPlaying # <<>>
    /\ LET id  == Head(ttsPlaying)
           st0 == [TtsState EXCEPT !.playing = Tail(@),
                                   !.log = Append(@, [ev |-> "done", id |-> id]),
                                   !.isSpeaking = FALSE]
       IN  TtsSet(processQueue(st0))
    /\ UNCHANGED <<ttsPending, ttsCalls>>

NextTts ==
    \/ \E e \in BOOLEAN : SpeakNormal(e)
    \/ \E e \in BOOLEAN : SpeakPriority(e)
    \/ Stop
    \/ StopSettles
    \/ ClearQueue
    \/ OnDone

\* the service with every call but clearQueue()
NextQueue ==
    \/ \E e \in BOOLEAN : Len(ttsSubs) < MaxSessionUtter /\ SpeakNormal(e)
    \/ \E e \in BOOLEAN : Len(ttsSubs) < MaxSessionUtter /\ SpeakPriority(e)
    \/ Stop
    \/ StopSettles
    \/ OnDone

\* the service as useVoiceSession drives it: speak calls and stopSession
\* (the hook calls no stop() or clearQueue() outside stopSession)
NextSession ==
    \/ \E e \in BOOLEAN : Len(ttsSubs) < MaxSessionUtter /\ SpeakNormal(e)
    \/ \E e \in BOOLEAN : Len(ttsSubs) < MaxSessionUtter /\ SpeakPriority(e)
    \/ StopSettles
    \/ OnDone
    \/ StopSession


(***************************************************************************)
(* Text                                                                    *)
(***************************************************************************)
IsSpace(c) == c = " "

RECURSIVE TrimStart(_)
TrimStart(s) == IF s # <<>> /\ IsSpace(Head(s)) THEN TrimStart(Tail(s)) ELSE s

RECURSIVE TrimEnd(_)
TrimEnd(s) ==
    IF s # <<>> /\ IsSpace(s[Len(s)]) THEN TrimEnd(SubSeq(s, 1, Len(s) - 1)) ELSE s

\* String.prototype.trim
Trim(s) == TrimEnd(TrimStart(s))

\* mutant of Join: the parts are put together without the separator
RECURSIVE JoinTight(_, _)
JoinTight(parts, sep) ==
    IF parts = <<>> THEN <<>> ELSE parts[1] \o JoinTight(Tail(parts), sep)

\* Array.prototype.join
RECURSIVE Join(_, _)
Join(parts, sep) ==
    IF parts = <<>> THEN <<>>
    ELSE IF Len(parts) = 1 THEN parts[1]
    ELSE parts[1] \o sep \o Join(Tail(parts), sep)

\* JSON.stringify of an array of strings
JSONStringify(parts) ==
    <<"[">> \o Join([i \in 1..Len(parts) |-> <<"\"">> \o parts[i] \o <<"\"">>], <<",">>)
            \o <<"]">>

(***************************************************************************)
(* Links and the two regular expressions                                   *)
(***************************************************************************)
Upper == <<"A", "B", "C", "D", "E", "F", "G", "H", "I", "J", "K", "L", "M", "N", "O", "P", "Q", "R", "S", "T", "U", "V", "W", "X", "Y", "Z">>

Lower == <<"a", "b", "c", "d", "e", "f", "g", "h", "i", "j", "k", "l", "m", "n", "o", "p", "q", "r", "s", "t", "u", "v", "w", "x", "y", "z">>

Digits == <<"0", "1", "2", "3", "4", "5", "6", "7", "8", "9">>

\* \w
IsWordChar(c) == c \in Range(Upper) \cup Range(Lower) \cup Range(Digits) \cup {"_"}

\* mutant of ToLowerCase: the text is left as it is
ToLowerCaseKeep(s) == s

\* String.prototype.toLowerCase
ToLowerCase(s) ==
    [i \in 1..Len(s) |->
        IF \E k \in 1..Len(Upper) : Upper[k] = s[i]
        THEN Lower[CHOOSE k \in 1..Len(Upper) : Upper[k] = s[i]]
        ELSE s[i]]

\* lit occurs in s at position p
MatchAt(s, p, lit) ==
    p >= 1 /\ p + Len(lit) - 1 <= Len(s) /\ SubSeq(s, p, p + Len(lit) - 1) = lit

\* String.prototype.includes
Includes(s, lit) == \E p \in 1..(Len(s) + 1) : MatchAt(s, p, lit)

\* `.` of a regular expression without the s flag
IsDot(c) == c # "\n"

\* mutant of youtubeRegexTest: every string passes
youtubeRegexTestAny(s) == TRUE

\* /^(https?:\/\/)?(www\.)?(youtube\.com|youtu\.?be)\/.+/.test(s)
youtubeRegexTest(s) ==
    \E scheme \in {<<>>, <<"h", "t", "t", "p", ":", "/", "/">>, <<"h", "t", "t", "p", "s", ":", "/", "/">>},
       www \in {<<>>, <<"w", "w", "w", ".">>},
       host \in {<<"y", "o", "u", "t", "u", "b", "e", ".", "c", "o", "m">>, <<"y", "o", "u", "t", "u", "b", "e">>, <<"y", "o", "u", "t", "u", ".", "b", "e">>} :
        LET pre == scheme \o www \o host \o <<"/">>
        IN  /\ IsPrefix(pre, s)
            /\ Len(s) > Len(pre)
            /\ IsDot(s[Len(pre) + 1])

\* length of the alternative of
\* ((youtu.be\/)|(v\/)|(\/u\/\w\/)|(embed\/)|(watch\?)) that matches at p,
\* 0 when none does
MarkerLen(s, p) ==
    IF /\ MatchAt(s, p, <<"y", "o", "u", "t", "u">>) /\ p + 8 <= Len(s)
       /\ IsDot(s[p + 5]) /\ MatchAt(s, p + 6, <<"b", "e", "/">>)
    THEN 9
    ELSE IF MatchAt(s, p, <<"v", "/">>) THEN 2
    ELSE IF /\ MatchAt(s, p, <<"/", "u", "/">>) /\ p + 4 <= Len(s)
            /\ IsWordChar(s[p + 3]) /\ s[p + 4] = "/"
    THEN 5
    ELSE IF MatchAt(s, p, <<"e", "m", "b", "e", "d", "/">>) THEN 6
    ELSE IF MatchAt(s, p, <<"w", "a", "t", "c", "h", "?">>) THEN 6
    ELSE 0

\* p + 1 when s has c at p, else p: an optional single character, greedy
SkipOpt(s, p, c) == IF p <= Len(s) /\ s[p] = c THEN p + 1 ELSE p

\* [^#&?]* from p: the longest run of other characters
RECURSIVE RunEnd(_, _)
RunEnd(s, p) ==
    IF p <= Len(s) /\ s[p] \notin {"#", "&", "?"} THEN RunEnd(s, p + 1) ELSE p

NoId == <<>>

\* extractVideoId: url.match(/^.*(markers)\??v?=?([^#&?]*).*/). The greedy
\* ^.* leaves the match at the last position where a marker matches; after
\* the marker an optional ?, v and = are consumed, and group 7 is the run up
\* to the next #, & or ?. The group is returned when it has 11 characters,
\* null (a falsy value, here the empty text) otherwise and when nothing
\* matches.
extractVideoId(url) ==
    LET starts == {p \in 1..Len(url) :
                     /\ MarkerLen(url, p) > 0
                     /\ \A k \in 1..(p - 1) : IsDot(url[k])}
    IN  IF starts = {} THEN NoId
        ELSE LET p  == CHOOSE x \in starts : \A y \in starts : y <= x
                 q  == p + MarkerLen(url, p)
                 q3 == SkipOpt(url, SkipOpt(url, SkipOpt(url, q, "?"), "v"), "=")
                 g7 == SubSeq(url, q3, RunEnd(url, q3) - 1)
             IN  IF Len(g7) = 11 THEN g7 ELSE NoId

(***************************************************************************)
(* extractVideoId applied to a family of links (the smoke test's use).     *)
(***************************************************************************)
WatchLink == <<"h", "t", "t", "p", "s", ":", "/", "/", "w", "w", "w", ".", "y", "o", "u", "t", "u", "b", "e", ".", "c", "o", "m", "/", "w", "a", "t", "c", "h", "?", "v", "=">>

ShortLink == <<"h", "t", "t", "p", "s", ":", "/", "/", "y", "o", "u", "t", "u", ".", "b", "e", "/">>

EmbedLink == <<"h", "t", "t", "p", "s", ":", "/", "/", "w", "w", "w", ".", "y", "o", "u", "t", "u", "b", "e", ".", "c", "o", "m", "/", "e", "m", "b", "e", "d", "/">>

\* ten identifier characters; an identifier is one more character in front
IdTails == {<<"Q", "w", "4", "w", "9", "W", "g", "X", "c", "Q">>, <<"v", "-", "_", "v", "A", "0", "v", "v", "Z", "9">>}

IdHeads == {"d", "v", "_", "7"}

Identifiers == {<<h>> \o t : h \in IdHeads, t \in IdTails}

\* segments of the wrong length: 10 and 12 characters
WrongSegments == IdTails \cup {<<"d", h>> \o t : h \in IdHeads, t \in IdTails}

\* what may follow the identifier
Suffixes == {<<>>, <<"&", "t", "=", "4", "2", "s">>, <<"?", "s", "i", "=", "a", "b", "c">>, <<"#", "t", "o", "p">>}

\* strings of none of the accepted shapes
OtherStrings == {<<>>, <<"n", "o", "t", " ", "a", " ", "u", "r", "l">>, <<"h", "t", "t", "p", "s", ":", "/", "/", "w", "w", "w", ".", "y", "o", "u", "t", "u", "b", "e", ".", "c", "o", "m", "/", "p", "l", "a", "y", "l", "i", "s", "t">>, <<"h", "t", "t", "p", "s", ":", "/", "/", "e", "x", "a", "m", "p", "l", "e", ".", "c", "o", "m", "/", "x">>}

ExInputs ==
    {[kind |-> "link", shape |-> sh, seg |-> g, suffix |-> x, url |-> sh \o g \o x] :
        sh \in {WatchLink, ShortLink, EmbedLink},
        g \in Identifiers \cup WrongSegments,
        x \in Suffixes}
    \cup {[kind |-> "other", shape |-> <<>>, seg |-> <<>>, suffix |-> <<>>, url |-> o] :
            o \in OtherStrings}

NoExInput == [kind |-> "other", shape |-> <<>>, seg |-> <<>>, suffix |-> <<>>, url |-> <<>>]

IdleExtract ==
    /\ exIn = NoExInput
    /\ exOut = [done |-> FALSE, id |-> NoId]

InitExtract ==
    /\ exIn \in ExInputs
    /\ exOut = [done |-> FALSE, id |-> NoId]

\* testYoutubeTranscript: const videoId = extractVideoId(testVideoUrl)
TestExtract ==
    /\ ~exOut.done
    /\ exOut' = [done |-> TRUE, id |-> extractVideoId(exIn.url)]
    /\ UNCHANGED <<exIn, ttsVars, chatVars, inputVars, cmdVars, envVars, cookVars>>

NextExtract == TestExtract

(***************************************************************************)
(* CommandDetectionService (docs/VOICE_INTEGRATION.md)                     *)
(***************************************************************************)
\* enum CommandType, in declaration order
CommandTypes == <<"next_step", "previous_step", "repeat", "ingredients", "timer", "help", "general_question">>

\* A pattern of commandPatterns: the literal texts its alternations and
\* optional parts expand to, in the order the matcher tries them (all
\* patterns carry the i flag, the texts are in lower case), and the number
\* of the capture group (\d+) that ends it, 0 when it has none.
RegExp(alts, digitsGroup) == [alts |-> alts, digitsGroup |-> digitsGroup]

NextStepPatterns ==
    <<RegExp(<<<<"n", "e", "x", "t", " ", "s", "t", "e", "p">>>>, 0),
      RegExp(<<<<"c", "o", "n", "t", "i", "n", "u", "e">>>>, 0),
      RegExp(<<<<"w", "h", "a", "t", "'", "s", " ", "n", "e", "x", "t">>, <<"w", "h", "a", "t", " ", "i", "s", " ", "n", "e", "x", "t">>>>, 0),
      RegExp(<<<<"m", "o", "v", "e", " ", "o", "n">>, <<"m", "o", "v", "e", " ", "f", "o", "r", "w", "a", "r", "d">>>>, 0)>>

PreviousStepPatterns ==
    <<RegExp(<<<<"p", "r", "e", "v", "i", "o", "u", "s", " ", "s", "t", "e", "p">>>>, 0),
      RegExp(<<<<"g", "o", " ", "b", "a", "c", "k">>>>, 0),
      RegExp(<<<<"r", "e", "p", "e", "a", "t", " ", "t", "h", "e", " ", "l", "a", "s", "t", " ", "s", "t", "e", "p">>, <<"r", "e", "p", "e", "a", "t", " ", "t", "h", "e", " ", "p", "r", "e", "v", "i", "o", "u", "s", " ", "s", "t", "e", "p">>, <<"r", "e", "p", "e", "a", "t", " ", "t", "h", "e", " ", "s", "t", "e", "p">>,
               <<"r", "e", "p", "e", "a", "t", " ", "t", "h", "a", "t", " ", "l", "a", "s", "t", " ", "s", "t", "e", "p">>, <<"r", "e", "p", "e", "a", "t", " ", "t", "h", "a", "t", " ", "p", "r", "e", "v", "i", "o", "u", "s", " ", "s", "t", "e", "p">>, <<"r", "e", "p", "e", "a", "t", " ", "t", "h", "a", "t", " ", "s", "t", "e", "p">>,
               <<"r", "e", "p", "e", "a", "t", " ", "t", "h", "i", "s", " ", "l", "a", "s", "t", " ", "s", "t", "e", "p">>, <<"r", "e", "p", "e", "a", "t", " ", "t", "h", "i", "s", " ", "p", "r", "e", "v", "i", "o", "u", "s", " ", "s", "t", "e", "p">>, <<"r", "e", "p", "e", "a", "t", " ", "t", "h", "i", "s", " ", "s", "t", "e", "p">>,
               <<"r", "e", "p", "e", "a", "t", " ", "l", "a", "s", "t", " ", "s", "t", "e", "p">>, <<"r", "e", "p", "e", "a", "t", " ", "p", "r", "e", "v", "i", "o", "u", "s", " ", "s", "t", "e", "p">>, <<"r", "e", "p", "e", "a", "t", " ", "s", "t", "e", "p">>>>, 0)>>

RepeatPatterns ==
    <<RegExp(<<<<"r", "e", "p", "e", "a", "t", " ", "t", "h", "a", "t">>, <<"r", "e", "p", "e", "a", "t", " ", "t", "h", "i", "s">>, <<"r", "e", "p", "e", "a", "t", " ", "a", "g", "a", "i", "n">>>>, 0),
      RegExp(<<<<"s", "a", "y", " ", "t", "h", "a", "t", " ", "a", "g", "a", "i", "n">>, <<"s", "a", "y", " ", "t", "h", "i", "s", " ", "a", "g", "a", "i", "n">>, <<"s", "a", "y", " ", "i", "t", " ", "a", "g", "a", "i", "n">>>>, 0),
      RegExp(<<<<"w", "h", "a", "t", " ", "d", "i", "d", " ", "y", "o", "u", " ", "s", "a", "y">>>>, 0)>>

IngredientsPatterns ==
    <<RegExp(<<<<"w", "h", "a", "t", " ", "a", "r", "e", " ", "t", "h", "e", " ", "i", "n", "g", "r", "e", "d", "i", "e", "n", "t", "s">>, <<"w", "h", "a", "t", " ", "w", "e", "r", "e", " ", "t", "h", "e", " ", "i", "n", "g", "r", "e", "d", "i", "e", "n", "t", "s">>>>, 0),
      RegExp(<<<<"l", "i", "s", "t", " ", "t", "h", "e", " ", "i", "n", "g", "r", "e", "d", "i", "e", "n", "t", "s">>, <<"l", "i", "s", "t", " ", "i", "n", "g", "r", "e", "d", "i", "e", "n", "t", "s">>>>, 0),
      RegExp(<<<<"w", "h", "a", "t", " ", "d", "o", " ", "i", " ", "n", "e", "e", "d">>>>, 0)>>

\* /set (a )?timer for (\d+)/i, /timer (\d+)/i, /remind me in (\d+)/i
TimerPatterns ==
    <<RegExp(<<<<"s", "e", "t", " ", "a", " ", "t", "i", "m", "e", "r", " ", "f", "o", "r", " ">>, <<"s", "e", "t", " ", "t", "i", "m", "e", "r", " ", "f", "o", "r", " ">>>>, 2),
      RegExp(<<<<"t", "i", "m", "e", "r", " ">>>>, 1),
      RegExp(<<<<"r", "e", "m", "i", "n", "d", " ", "m", "e", " ", "i", "n", " ">>>>, 1)>>

HelpPatterns ==
    <<RegExp(<<<<"h", "e", "l", "p">>>>, 0),
      RegExp(<<<<"w", "h", "a", "t", " ", "c", "a", "n", " ", "i", " ", "d", "o">>, <<"w", "h", "a", "t", " ", "c", "a", "n", " ", "y", "o", "u", " ", "d", "o">>>>, 0),
      RegExp(<<<<"w", "h", "a", "t", " ", "c", "o", "m", "m", "a", "n", "d", "s">>>>, 0)>>

GeneralQuestionPatterns ==
    <<RegExp(<<<<"h", "o", "w", " ", "d", "o", " ", "i">>, <<"h", "o", "w", " ", "c", "a", "n", " ", "i">>, <<"h", "o", "w", " ", "s", "h", "o", "u", "l", "d", " ", "i">>>>, 0),
      RegExp(<<<<"w", "h", "a", "t", " ", "i", "s">>, <<"w", "h", "a", "t", " ", "a", "r", "e">>>>, 0),
      RegExp(<<<<"w", "h", "y", " ", "i", "s">>, <<"w", "h", "y", " ", "a", "r", "e">>, <<"w", "h", "y", " ", "s", "h", "o", "u", "l", "d">>>>, 0)>>

\* mutant of commandPatterns: the general questions are declared first
commandPatternsQuestionFirst ==
    <<[type |-> "general_question", patterns |-> GeneralQuestionPatterns],
      [type |-> "next_step", patterns |-> NextStepPatterns],
      [type |-> "previous_step", patterns |-> PreviousStepPatterns],
      [type |-> "repeat", patterns |-> RepeatPatterns],
      [type |-> "ingredients", patterns |-> IngredientsPatterns],
      [type |-> "timer", patterns |-> TimerPatterns],
      [type |-> "help", patterns |-> HelpPatterns]>>

\* Object.entries(this.commandPatterns): the keys in insertion order
commandPatterns ==
    <<[type |-> "next_step", patterns |-> NextStepPatterns],
      [type |-> "previous_step", patterns |-> PreviousStepPatterns],
      [type |-> "repeat", patterns |-> RepeatPatterns],
      [type |-> "ingredients", patterns |-> IngredientsPatterns],
      [type |-> "timer", patterns |-> TimerPatterns],
      [type |-> "help", patterns |-> HelpPatterns],
      [type |-> "general_question", patterns |-> GeneralQuestionPatterns]>>

\* \d
IsDigit(c) == c \in Range(Digits)

\* \d+ from p: the longest run of digits
RECURSIVE DigitsEnd(_, _)
DigitsEnd(s, p) == IF p <= Len(s) /\ IsDigit(s[p]) THEN DigitsEnd(s, p + 1) ELSE p

\* alternative k of the pattern matches the lower-cased text at p
AltMatchesAt(low, p, pattern, k) ==
    LET a == pattern.alts[k]
    IN  /\ MatchAt(low, p, a)
        /\ pattern.digitsGroup > 0 =>
               (p + Len(a) <= Len(low) /\ IsDigit(low[p + Len(a)]))

NoMatch == [matched |-> FALSE, group1 |-> <<>>, group2 |-> <<>>]

\* text.match(pattern) for a pattern without the g flag: the leftmost match;
\* of the result only what detectCommand reads is kept: whether there is a
\* match and, for the TIMER patterns, groups 1 and 2 (an absent group is
\* undefined, here the empty text)
textMatch(low, pattern) ==
    LET hits == {p \in 1..(Len(low) + 1) :
                    \E k \in 1..Len(pattern.alts) : AltMatchesAt(low, p, pattern, k)}
    IN  IF hits = {} THEN NoMatch
        ELSE LET p == CHOOSE x \in hits : \A y \in hits : x <= y
                 ks == {k \in 1..Len(pattern.alts) : AltMatchesAt(low, p, pattern, k)}
                 k == CHOOSE x \in ks : \A y \in ks : x <= y
                 q == p + Len(pattern.alts[k])
                 digits == SubSeq(low, q, DigitsEnd(low, q) - 1)
             IN  [matched |-> TRUE,
                  group1 |-> IF pattern.digitsGroup = 1 THEN digits
                             ELSE IF pattern.digitsGroup = 2 /\ k = 1 THEN <<"a", " ">>
                             ELSE <<>>,
                  group2 |-> IF pattern.digitsGroup = 2 THEN digits ELSE <<>>]

DigitValue(c) == CHOOSE v \in 0..9 : Digits[v + 1] = c

\* parseInt(digits, 10) of a run of digits
RECURSIVE parseInt(_)
parseInt(d) ==
    IF d = <<>> THEN 0
    ELSE 10 * parseInt(SubSeq(d, 1, Len(d) - 1)) + DigitValue(d[Len(d)])

\* params: null (or absent)
NullParams == [present |-> FALSE, minutes |-> 0]

\* detectCommand: the first type, and in it the first pattern, that matches;
\* params = { minutes: parseInt(match[2], 10) } when the type is TIMER and
\* match[2] is truthy, null otherwise; a general question when nothing
\* matches
detectCommand(text) ==
    LET low == ToLowerCase(text)
        hits == {tk \in {<<t, k>> : t \in 1..Len(commandPatterns), k \in 1..4} :
                    /\ tk[2] <= Len(commandPatterns[tk[1]].patterns)
                    /\ textMatch(low, commandPatterns[tk[1]].patterns[tk[2]]).matched}
    IN  IF hits = {} THEN [type |-> "general_question", params |-> NullParams]
        ELSE LET tk == CHOOSE x \in hits :
                           \A y \in hits : x[1] < y[1] \/ (x[1] = y[1] /\ x[2] <= y[2])
                 type == commandPatterns[tk[1]].type
                 match == textMatch(low, commandPatterns[tk[1]].patterns[tk[2]])
             IN  [type |-> type,
                  params |-> IF type = "timer" /\ match.group2 # <<>>
                             THEN [present |-> TRUE, minutes |-> parseInt(match.group2)]
                             ELSE NullParams]

\* handleCommand: the sentence the reply begins with, the RecipeService call
\* it is completed by, and for TIMER the minutes announced:
\* command.params?.minutes || 5
handleCommand(command) ==
    CASE command.type = "next_step" ->
            [say |-> "Moving to the next step. ", call |-> "advanceToNextStep", minutes |-> 0]
      [] command.type = "previous_step" ->
            [say |-> "Going back to the previous step. ", call |-> "goToPreviousStep", minutes |-> 0]
      [] command.type = "repeat" ->
            [say |-> "I'll repeat that. ", call |-> "getCurrentStep", minutes |-> 0]
      [] command.type = "ingredients" ->
            [say |-> "Here are the ingredients you need: ", call |-> "getIngredients", minutes |-> 0]
      [] command.type = "timer" ->
            [say |-> "Setting a timer for ", call |-> "",
             minutes |-> IF command.params.present /\ command.params.minutes # 0
                         THEN command.params.minutes ELSE 5]
      [] command.type = "help" ->
            [say |-> "Here are some commands you can use:", call |-> "", minutes |-> 0]
      [] OTHER ->
            [say |-> "", call |-> "handleUserInput", minutes |-> 0]

\* position of a type in the declaration
TypeIndex(type) == CHOOSE i \in 1..Len(CommandTypes) : CommandTypes[i] = type

\* Utterances: a phrase written for one command type (for TIMER with its
\* number), alone, with a polite word before or words after it, or followed
\* by a second phrase.
Phrase(text, type, n) == [text |-> text, type |-> type, n |-> n]

Phrases ==
    {Phrase(<<"n", "e", "x", "t", " ", "s", "t", "e", "p">>, "next_step", 0), Phrase(<<"C", "o", "n", "t", "i", "n", "u", "e">>, "next_step", 0),
     Phrase(<<"w", "h", "a", "t", "'", "s", " ", "n", "e", "x", "t">>, "next_step", 0), Phrase(<<"W", "h", "a", "t", " ", "i", "s", " ", "n", "e", "x", "t">>, "next_step", 0),
     Phrase(<<"m", "o", "v", "e", " ", "f", "o", "r", "w", "a", "r", "d">>, "next_step", 0),
     Phrase(<<"g", "o", " ", "b", "a", "c", "k", " ", "t", "o", " ", "t", "h", "e", " ", "p", "r", "e", "v", "i", "o", "u", "s", " ", "s", "t", "e", "p">>, "previous_step", 0),
     Phrase(<<"g", "o", " ", "b", "a", "c", "k">>, "previous_step", 0),
     Phrase(<<"r", "e", "p", "e", "a", "t", " ", "t", "h", "e", " ", "l", "a", "s", "t", " ", "s", "t", "e", "p">>, "previous_step", 0),
     Phrase(<<"r", "e", "p", "e", "a", "t", " ", "t", "h", "a", "t", " ", "s", "t", "e", "p">>, "previous_step", 0),
     Phrase(<<"r", "e", "p", "e", "a", "t", " ", "t", "h", "a", "t">>, "repeat", 0), Phrase(<<"s", "a", "y", " ", "i", "t", " ", "a", "g", "a", "i", "n">>, "repeat", 0),
     Phrase(<<"W", "h", "a", "t", " ", "d", "i", "d", " ", "y", "o", "u", " ", "s", "a", "y">>, "repeat", 0),
     Phrase(<<"w", "h", "a", "t", " ", "a", "r", "e", " ", "t", "h", "e", " ", "i", "n", "g", "r", "e", "d", "i", "e", "n", "t", "s">>, "ingredients", 0),
     Phrase(<<"l", "i", "s", "t", " ", "i", "n", "g", "r", "e", "d", "i", "e", "n", "t", "s">>, "ingredients", 0),
     Phrase(<<"w", "h", "a", "t", " ", "d", "o", " ", "I", " ", "n", "e", "e", "d">>, "ingredients", 0),
     Phrase(<<"s", "e", "t", " ", "a", " ", "t", "i", "m", "e", "r", " ", "f", "o", "r", " ", "1", "0">>, "timer", 10), Phrase(<<"S", "e", "t", " ", "t", "i", "m", "e", "r", " ", "f", "o", "r", " ", "3">>, "timer", 3),
     Phrase(<<"t", "i", "m", "e", "r", " ", "1", "0">>, "timer", 10), Phrase(<<"t", "i", "m", "e", "r", " ", "3">>, "timer", 3),
     Phrase(<<"r", "e", "m", "i", "n", "d", " ", "m", "e", " ", "i", "n", " ", "1", "0">>, "timer", 10), Phrase(<<"r", "e", "m", "i", "n", "d", " ", "m", "e", " ", "i", "n", " ", "3">>, "timer", 3),
     Phrase(<<"h", "e", "l", "p">>, "help", 0), Phrase(<<"w", "h", "a", "t", " ", "c", "a", "n", " ", "y", "o", "u", " ", "d", "o">>, "help", 0),
     Phrase(<<"w", "h", "a", "t", " ", "c", "o", "m", "m", "a", "n", "d", "s">>, "help", 0),
     Phrase(<<"h", "o", "w", " ", "d", "o", " ", "I">>, "general_question", 0), Phrase(<<"w", "h", "a", "t", " ", "a", "r", "e">>, "general_question", 0),
     Phrase(<<"w", "h", "y", " ", "s", "h", "o", "u", "l", "d">>, "general_question", 0),
     Phrase(<<"w", "h", "a", "t", " ", "t", "e", "m", "p", "e", "r", "a", "t", "u", "r", "e", " ", "s", "h", "o", "u", "l", "d", " ", "t", "h", "e", " ", "o", "v", "e", "n", " ", "b", "e", "?">>, "general_question", 0),
     Phrase(<<"h", "e", "l", "l", "o">>, "general_question", 0), Phrase(<<>>, "general_question", 0)}

Prefixes == {<<>>, <<"p", "l", "e", "a", "s", "e", " ">>}

PhraseSuffixes == {<<>>, <<" ", "p", "l", "e", "a", "s", "e">>, <<" ", "m", "i", "n", "u", "t", "e", "s">>}

SecondPhrases ==
    {ph \in Phrases : ph.text \in {<<"n", "e", "x", "t", " ", "s", "t", "e", "p">>, <<"g", "o", " ", "b", "a", "c", "k">>, <<"h", "e", "l", "p">>}}

Utterance(text, expect, n) == [text |-> text, expect |-> expect, n |-> n]

CmdInputs ==
    {Utterance(pre \o ph.text \o suf, ph.type, ph.n) :
        pre \in Prefixes, ph \in Phrases, suf \in PhraseSuffixes}
    \cup {Utterance(a.text \o <<" ", "a", "n", "d", " ">> \o b.text,
                    IF TypeIndex(a.type) <= TypeIndex(b.type) THEN a.type ELSE b.type,
                    a.n) :
            a \in Phrases, b \in SecondPhrases}

NoCommand == [type |-> "", params |-> NullParams]

NoReply == [say |-> "", call |-> "", minutes |-> 0]

IdleDetect ==
    /\ cmdIn = Utterance(<<>>, "general_question", 0)
    /\ cmdOut = [pc |-> "idle", command |-> NoCommand, reply |-> NoReply]

InitDetect ==
    /\ cmdIn \in CmdInputs
    /\ cmdOut = [pc |-> "idle", command |-> NoCommand, reply |-> NoReply]

\* handleSpeechInput: const command = commandDetection.detectCommand(text)
DetectCommand ==
    /\ cmdOut.pc = "idle"
    /\ cmdOut' = [cmdOut EXCEPT !.pc = "detected", !.command = detectCommand(cmdIn.text)]
    /\ UNCHANGED <<cmdIn, ttsVars, chatVars, inputVars, exVars, envVars, cookVars>>

\* handleSpeechInput: await commandDetection.handleCommand(command, ...)
HandleCommand ==
    /\ cmdOut.pc = "detected"
    /\ cmdOut' = [cmdOut EXCEPT !.pc = "handled", !.reply = handleCommand(cmdOut.command)]
    /\ UNCHANGED <<cmdIn, ttsVars, chatVars, inputVars, exVars, envVars, cookVars>>

NextDetect == DetectCommand \/ HandleCommand

(***************************************************************************)
(* Chat screens: ChatScreen (pushed by the link screen, with microphone)   *)
(* and RecipeVoiceScreen (a tab, text only).                               *)
(***************************************************************************)
Apology == <<"Sorry, I encountered an error processing your request. Please try again.">>

Rephrase == <<"I had trouble understanding that. Could you rephrase your question?">>

\* const title = videoTitle ? videoTitle : 'Recipe Video'
Title(p) == IF p.videoTitle # "" THEN p.videoTitle ELSE "Recipe Video"

\* the seed turn of useState<Message[]>
Greeting(screen, p, whisper) ==
    IF screen = "voice"
    THEN <<"Hello! I'm your cooking assistant. Ask me anything about recipes, cooking techniques, or ingredients!">>
    ELSE <<"Hello! I'm your cooking assistant for ", Title(p), ". Just ",
           IF whisper THEN "press the microphone button and speak"
                      ELSE "type your question below">>

Welcome(p) == <<"I've analyzed the recipe from ", Title(p), ". What would you like to know about it?">>

Turn(role, content) == [role |-> role, content |-> content]

NoParams == [videoUrl |-> <<>>, videoTitle |-> "", hasTranscript |-> ""]

NoTurn == [phase |-> "none", via |-> "", base |-> <<>>, input |-> <<>>,
           content |-> [type |-> "none", parts |-> <<>>], request |-> <<>>]

\* what the keyboard can put into the text field
TextInputs == {<<>>, <<" ">>, <<" ", "a", " ", "b", " ">>}

\* response.content of the hosted chat model: a string, an array of parts,
\* or anything else
Contents ==
    {[type |-> "string", parts |-> <<<<"o", "k">>>>],
     [type |-> "array", parts |-> <<<<"o">>, <<"k">>>>],
     [type |-> "other", parts |-> <<>>]}

\* result.segments of whisper.transcribe, or no result at all
Transcriptions ==
    {[ok |-> FALSE, segments |-> <<>>]}
        \cup {[ok |-> TRUE, segments |-> g] :
                g \in {<<>>, <<<<" ">>>>, <<<<" ", "a">>, <<"b", " ">>>>}}

\* typeof content === 'string' ? content : Array.isArray(content) ?
\* JSON.stringify(content) : (fixed sentence)
ResponseText(content) ==
    IF content.type = "string" THEN content.parts[1]
    ELSE IF content.type = "array" THEN JSONStringify(content.parts)
    ELSE Rephrase

\* the component's state right after its first render
ChatMount(screen, p, whisper) ==
    [messages |-> <<Turn("assistant", Greeting(screen, p, whisper))>>,
     textInput |-> <<>>,
     isProcessing |-> FALSE,
     isSpeaking |-> FALSE,
     isRecording |-> FALSE,
     status |-> "",
     apiKey |-> "",
     isVoiceSupported |-> FALSE,
     whisperRef |-> FALSE,
     recording |-> 0,
     creating |-> 0,          \* Audio.Recording.createAsync calls not yet settled
     live |-> {},             \* recordings created and not yet unloaded
     made |-> 0,              \* recordings created so far
     pressed |-> FALSE,       \* the microphone button is held down
     playing |-> <<>>,        \* texts handed to Speech.speak, not yet done
     spoken |-> <<>>,         \* history: the last text speakResponse tried to speak
     alert |-> "",            \* history: title of the last Alert.alert
     turns |-> 0,             \* history: turns started
     lastTurn |-> NoTurn]     \* history: the turn that began last

\* speakResponse(text): setIsSpeaking(true); Speech.speak(...); a throw of
\* Speech.speak is caught and clears the flag
speakResponse(st, text, throws) ==
    IF throws
    THEN [st EXCEPT !.isSpeaking = FALSE, !.spoken = text]
    ELSE [st EXCEPT !.isSpeaking = TRUE, !.spoken = text,
                    !.playing = Append(@, text)]

\* mutant of catchLangChain: the flags are reset but nothing is appended
catchLangChainSilent(st, throws) ==
    speakResponse(
        [st EXCEPT !.isProcessing = FALSE,
                   !.status = "",
                   !.lastTurn.phase = "failed"],
        Apology, throws)

\* the catch block of processWithLangChain
catchLangChain(st, throws) ==
    speakResponse(
        [st EXCEPT !.isProcessing = FALSE,
                   !.status = "",
                   !.messages = Append(@, Turn("assistant", Apology)),
                   !.lastTurn.phase = "failed"],
        Apology, throws)

\* mutant of replyLangChain: the apology of the catch block follows the reply
replyLangChainThenCatch(st, content, throws) ==
    LET text == ResponseText(content)
        st1  == [st EXCEPT !.messages = @ \o <<Turn("assistant", text),
                                               Turn("assistant", Apology)>>,
                           !.lastTurn.phase = "ok",
                           !.lastTurn.content = content]
    IN  [speakResponse(st1, Apology, throws) EXCEPT !.isProcessing = FALSE,
                                                     !.status = ""]

\* processWithLangChain after model.invoke returned
replyLangChain(st, content, throws) ==
    LET text == ResponseText(content)
        st1  == [st EXCEPT !.messages = Append(@, Turn("assistant", text)),
                           !.lastTurn.phase = "ok",
                           !.lastTurn.content = content]
    IN  [speakResponse(st1, text, throws) EXCEPT !.isProcessing = FALSE,
                                                  !.status = ""]

\* a suspended handler: where it waits and what its closure captured
Chain(pc, via, st, userInput) ==
    [pc |-> pc, via |-> via,
     messages |-> st.messages, apiKey |-> st.apiKey,
     isVoiceSupported |-> st.isVoiceSupported,
     recording |-> st.recording, userInput |-> userInput]

\* const { ..., transcript } = useLocalSearchParams(); videoTranscript is
\* undefined (here the empty text) when the route was pushed without it
videoTranscript(p) == IF "transcript" \in DOMAIN p THEN p.transcript ELSE <<>>

TranscriptLimit == 8000

\* String.prototype.substring(a, b) for 0 <= a <= b
Substring(s, a, b) == SubSeq(s, a + 1, IF b < Len(s) THEN b ELSE Len(s))

NoTranscript == <<"N", "o", " ", "t", "r", "a", "n", "s", "c", "r", "i", "p", "t", " ", "a", "v", "a", "i", "l", "a", "b", "l", "e">>

\* systemPrompt of processWithLangChain: RecipeVoiceScreen's fixed text, or
\* ChatScreen's text around the title and the transcript of the route
SystemPrompt ==
    IF route = "voice"
    THEN <<"You are a helpful cooking assistant that specializes in recipes ... (under 200 words).">>
    ELSE <<"You are a helpful cooking assistant ... with the title: ", Title(params),
           "Here is the transcript of the video:",
           IF videoTranscript(params) # <<>>
           THEN Substring(videoTranscript(params), 0, TranscriptLimit)
           ELSE NoTranscript,
           "Based on this video's content: ... (under 200 words). ...">>

\* messages.map(msg => [msg.role === 'user' ? 'human' : 'assistant', msg.content])
historyMessages(messages) ==
    [i \in 1..Len(messages) |->
        Turn(IF messages[i].role = "user" THEN "human" ELSE "assistant",
             messages[i].content)]

\* mutant of invokeMessages: the history already holds the new user turn
invokeMessagesTwice(messages, userInput) ==
    <<Turn("system", SystemPrompt)>>
        \o historyMessages(Append(messages, Turn("user", userInput)))
        \o <<Turn("human", userInput)>>

\* the argument of model.invoke:
\* [["system", systemPrompt], ...historyMessages, ["human", userInput]]
invokeMessages(messages, userInput) ==
    <<Turn("system", SystemPrompt)>>
        \o historyMessages(messages)
        \o <<Turn("human", userInput)>>

\* processWithLangChain up to `await model.invoke`: the flag and status are
\* set; without a key the throw lands in the catch block at once, with a key
\* the request is built from the messages of the handler's closure
startLangChain(st, chain, throws) ==
    LET st1 == [st EXCEPT !.isProcessing = TRUE, !.status = "Thinking..."]
    IN  IF chain.apiKey = ""
        THEN [st |-> catchLangChain(st1, throws), waits |-> FALSE]
        ELSE [st |-> [st1 EXCEPT !.lastTurn.request =
                                     invokeMessages(chain.messages, chain.userInput)],
              waits |-> TRUE]

\* mutant of endWithAlert: the alert is raised with the flags left as they are
endWithAlertBusy(st, title) == [st EXCEPT !.alert = title]

\* the way out of stopRecording and transcribeAudio without a turn:
\* setIsProcessing(false); setStatus(''); Alert.alert(title, ...)
endWithAlert(st, title) ==
    [st EXCEPT !.isProcessing = FALSE, !.status = "", !.alert = title]

\* mutant of Editable: the field is never locked
EditableAlways(screen, st) == TRUE

\* editable of the text field

Editable(screen, st) ==
    IF screen = "chat"
    THEN ~st.isProcessing /\ ~st.isSpeaking /\ ~st.isRecording
    ELSE ~st.isProcessing /\ ~st.isSpeaking

\* disabled of the send button, negated
SendEnabled(screen, st) ==
    IF screen = "chat"
    THEN ~(st.isProcessing \/ st.isSpeaking \/ st.isRecording \/ Trim(st.textInput) = <<>>)
    ELSE ~(st.isProcessing \/ st.isSpeaking \/ Trim(st.textInput) = <<>>)

\* mutant of MicEnabled: the button is never disabled
MicEnabledAlways(st) == TRUE

\* disabled of the microphone button, negated
MicEnabled(st) == ~(st.isProcessing \/ st.isSpeaking)

\* onPress of the send button can fire: the button is enabled and no other
\* button of the screen is being held (one touch responder at a time)
SendPressable(screen, st) == SendEnabled(screen, st) /\ ~st.pressed

\* onSubmitEditing of the text field can fire: the field is editable and
\* single-line (multiline={false} on RecipeVoiceScreen); the multiline field
\* of ChatScreen takes the return key as a line break
SubmitEditing(screen, st) == screen = "voice" /\ Editable(screen, st)

OnChat == route \in {"chat", "voice"}

WithoutAt(seq, i) == SubSeq(seq, 1, i - 1) \o SubSeq(seq, i + 1, Len(seq))

\* setup() after `await initEnv()`: the key goes into state, or an alert
SetupEnv ==
    /\ OnChat /\ setupPc = "env"
    /\ cs' = IF env.key # ""
             THEN [cs EXCEPT !.apiKey = env.key]
             ELSE [cs EXCEPT !.alert = "API Key Required"]
    /\ setupPc' = IF route = "chat" /\ env.whisper THEN "whisper" ELSE "done"
    /\ UNCHANGED <<route, params, chains, env, ttsVars, inputVars, exVars, cmdVars, envVars, cookVars>>

\* setup() after `await whisperRef.current.initialize()`: voice is supported
\* and the audio permissions are requested; or the catch block
SetupWhisper(ok) ==
    /\ OnChat /\ setupPc = "whisper"
    /\ cs' = [cs EXCEPT !.whisperRef = TRUE, !.isVoiceSupported = ok]
    /\ setupPc' = IF ok THEN "audio" ELSE "done"
    /\ UNCHANGED <<route, params, chains, env, ttsVars, inputVars, exVars, cmdVars, envVars, cookVars>>

\* setup() after requestPermissionsAsync and setAudioModeAsync, or the catch
\* block when one of them throws
SetupAudio(ok) ==
    /\ OnChat /\ setupPc = "audio"
    /\ cs' = [cs EXCEPT !.isVoiceSupported = ok]
    /\ setupPc' = "done"
    /\ UNCHANGED <<route, params, chains, env, ttsVars, inputVars, exVars, cmdVars, envVars, cookVars>>

\* onChangeText
TypeText(t) ==
    /\ OnChat /\ Editable(route, cs)
    /\ t # cs.textInput
    /\ cs' = [cs EXCEPT !.textInput = t]
    /\ UNCHANGED <<route, params, chains, setupPc, env, ttsVars, inputVars, exVars, cmdVars, envVars, cookVars>>

\* handleSubmit, from the send button or the keyboard's send key, up to
\* `await model.invoke` inside processWithLangChain
HandleSubmit(throws) ==
    /\ OnChat
    /\ SendPressable(route, cs) \/ SubmitEditing(route, cs)
    /\ Trim(cs.textInput) # <<>>
    /\ cs.turns < MaxTurns
    /\ LET userInput == Trim(cs.textInput)
           st1 == [cs EXCEPT !.messages = Append(@, Turn("user", userInput)),
                             !.textInput = <<>>,
                             !.turns = @ + 1,
                             !.lastTurn = [phase |-> "running", via |-> "text",
                                           base |-> cs.messages,
                                           input |-> cs.textInput,
                                           content |-> NoTurn.content,
                                           request |-> <<>>]]
           chain == Chain("invoke", "text", cs, userInput)
           r == startLangChain(st1, chain, throws)
       IN  /\ cs' = r.st
           /\ chains' = IF r.waits THEN Append(chains, chain) ELSE chains
    /\ UNCHANGED <<route, params, setupPc, env, ttsVars, inputVars, exVars, cmdVars, envVars, cookVars>>

\* model.invoke resolves: the rest of the try block
ModelReplies(i, content, throws) ==
    /\ OnChat /\ i \in 1..Len(chains) /\ chains[i].pc = "invoke"
    /\ cs' = replyLangChain(cs, content, throws)
    /\ chains' = WithoutAt(chains, i)
    /\ UNCHANGED <<route, params, setupPc, env, ttsVars, inputVars, exVars, cmdVars, envVars, cookVars>>

\* model.invoke (or the model's constructor) throws: the catch block
ModelFails(i, throws) ==
    /\ OnChat /\ i \in 1..Len(chains) /\ chains[i].pc = "invoke"
    /\ cs' = catchLangChain(cs, throws)
    /\ chains' = WithoutAt(chains, i)
    /\ UNCHANGED <<route, params, setupPc, env, ttsVars, inputVars, exVars, cmdVars, envVars, cookVars>>

\* onDone / onError of the utterance being played
SpeechEnds ==
    /\ OnChat /\ cs.playing # <<>>
    /\ cs' = [cs EXCEPT !.playing = Tail(@), !.isSpeaking = FALSE]
    /\ UNCHANGED <<route, params, chains, setupPc, env, ttsVars, inputVars, exVars, cmdVars, envVars, cookVars>>

\* onPressIn of the microphone: startRecording up to `await createAsync`
PressIn ==
    /\ route = "chat" /\ MicEnabled(cs) /\ ~cs.pressed
    /\ cs.made + cs.creating < MaxRecs
    /\ cs' = IF ~cs.isVoiceSupported
             THEN [cs EXCEPT !.pressed = TRUE, !.alert = "Voice Input Not Available"]
             ELSE [cs EXCEPT !.pressed = TRUE, !.isRecording = TRUE,
                             !.status = "Listening...", !.creating = @ + 1]
    /\ UNCHANGED <<route, params, chains, setupPc, env, ttsVars, inputVars, exVars, cmdVars, envVars, cookVars>>

\* Audio.Recording.createAsync settles: setRecording, or the catch block
CreateSettles(ok) ==
    /\ route = "chat" /\ cs.creating > 0
    /\ cs' = IF ok
             THEN [cs EXCEPT !.creating = @ - 1, !.made = @ + 1,
                             !.recording = cs.made + 1,
                             !.live = @ \cup {cs.made + 1}]
             ELSE [cs EXCEPT !.creating = @ - 1, !.isRecording = FALSE,
                             !.status = "", !.alert = "Error"]
    /\ UNCHANGED <<route, params, chains, setupPc, env, ttsVars, inputVars, exVars, cmdVars, envVars, cookVars>>

\* onPressOut of the microphone: stopRecording up to
\* `await recording.stopAndUnloadAsync()`
PressOut ==
    /\ route = "chat" /\ cs.pressed
    /\ IF cs.recording = 0 \/ cs.turns >= MaxTurns
       THEN /\ cs' = [cs EXCEPT !.pressed = FALSE]
            /\ chains' = chains
       ELSE /\ cs' = [cs EXCEPT !.pressed = FALSE, !.isRecording = FALSE,
                                !.isProcessing = TRUE,
                                !.status = "Processing your voice...",
                                !.turns = @ + 1]
            /\ chains' = Append(chains, Chain("unload", "voice", cs, <<>>))
    /\ UNCHANGED <<route, params, setupPc, env, ttsVars, inputVars, exVars, cmdVars, envVars, cookVars>>

\* stopAndUnloadAsync settles. ok: getURI() gives the file or null; with a
\* file and voice support transcribeAudio begins (up to `await transcribe`).
\* Every other way ends in an alert with the flags cleared.
UnloadSettles(i, ok, uri) ==
    /\ route = "chat" /\ i \in 1..Len(chains) /\ chains[i].pc = "unload"
    /\ LET c == chains[i]
       IN  IF ~ok
           THEN /\ cs' = endWithAlert(cs, "Error")
                /\ chains' = WithoutAt(chains, i)
           ELSE LET st1 == [cs EXCEPT !.live = @ \ {c.recording}, !.recording = 0]
                IN  IF ~uri
                    THEN /\ cs' = endWithAlert(st1, "Error")
                         /\ chains' = WithoutAt(chains, i)
                    ELSE IF c.isVoiceSupported /\ cs.whisperRef
                    THEN /\ cs' = [st1 EXCEPT !.status = "Transcribing..."]
                         /\ chains' = [chains EXCEPT ![i].pc = "transcribe"]
                    ELSE /\ cs' = endWithAlert(st1, "Error")
                         /\ chains' = WithoutAt(chains, i)
    /\ UNCHANGED <<route, params, setupPc, env, ttsVars, inputVars, exVars, cmdVars, envVars, cookVars>>

\* whisper.transcribe settles: the user turn is appended and
\* processWithLangChain begins, or an alert
TranscribeSettles(i, ok, result, throws) ==
    /\ route = "chat" /\ i \in 1..Len(chains) /\ chains[i].pc = "transcribe"
    /\ LET c == chains[i]
           transcription == Trim(Join(result.segments, <<" ">>))
       IN  IF ~ok \/ ~result.ok \/ result.segments = <<>>
           THEN /\ cs' = endWithAlert(cs, "Transcription Error")
                /\ chains' = WithoutAt(chains, i)
           ELSE IF transcription = <<>>
           THEN /\ cs' = endWithAlert(cs, "No Speech Detected")
                /\ chains' = WithoutAt(chains, i)
           ELSE LET st1 == [cs EXCEPT
                              !.messages = Append(@, Turn("user", transcription)),
                              !.lastTurn = [phase |-> "running", via |-> "voice",
                                            base |-> cs.messages,
                                            input |-> transcription,
                                            content |-> NoTurn.content,
                                            request |-> <<>>]]
                    r == startLangChain(st1, [c EXCEPT !.userInput = transcription],
                                        throws)
                IN  /\ cs' = r.st
                    /\ chains' = IF r.waits
                                 THEN [chains EXCEPT ![i].pc = "invoke",
                                                     ![i].userInput = transcription]
                                 ELSE WithoutAt(chains, i)
    /\ UNCHANGED <<route, params, setupPc, env, ttsVars, inputVars, exVars, cmdVars, envVars, cookVars>>

\* the cleanup function of the mount effect. Its dependency list is empty, so
\* it reads recording and isSpeaking of the render the effect ran in, first:
\* `if (recording) recording.stopAndUnloadAsync(); if (isSpeaking) Speech.stop();`
\* (RecipeVoiceScreen has the second statement only)
cleanup(first, st) ==
    LET st1 == IF first.recording # 0 THEN [st EXCEPT !.live = @ \ {first.recording}] ELSE st
    IN  IF first.isSpeaking THEN [st1 EXCEPT !.playing = <<>>] ELSE st1

\* the screen is left (back navigation, tab change): React runs the cleanup
Unmount ==
    /\ OnChat
    /\ cs' = cleanup(ChatMount(route, params, env.whisper), cs)
    /\ route' = "closed"
    /\ UNCHANGED <<params, chains, setupPc, env, ttsVars, inputVars, exVars, cmdVars, envVars, cookVars>>

NextChat ==
    \/ SetupEnv
    \/ \E ok \in BOOLEAN : SetupWhisper(ok)
    \/ \E ok \in BOOLEAN : SetupAudio(ok)
    \/ \E t \in TextInputs : TypeText(t)
    \/ \E throws \in BOOLEAN : HandleSubmit(throws)
    \/ \E i \in 1..Len(chains), content \in env.contents, throws \in BOOLEAN :
           ModelReplies(i, content, throws)
    \/ \E i \in 1..Len(chains), throws \in BOOLEAN : ModelFails(i, throws)
    \/ SpeechEnds
    \/ PressIn
    \/ \E ok \in BOOLEAN : CreateSettles(ok)
    \/ PressOut
    \/ \E i \in 1..Len(chains), ok \in BOOLEAN, uri \in BOOLEAN : UnloadSettles(i, ok, uri)
    \/ \E i \in 1..Len(chains), ok \in BOOLEAN, result \in env.transcriptions, throws \in BOOLEAN :
           TranscribeSettles(i, ok, result, throws)

(***************************************************************************)
(* YouTube link screen                                                     *)
(***************************************************************************)
\* Config.GOOGLE_API_KEY || '': the configuration file ships a key
GOOGLE_API_KEY == "KEY"

\* getApiKey
getApiKey(st) ==
    IF st.manualApiKey # "" THEN st.manualApiKey ELSE GOOGLE_API_KEY

TestLink == WatchLink \o <<"d", "Q", "w", "4", "w", "9", "W", "g", "X", "c", "Q">>

VLink == ShortLink \o <<"v", "Q", "w", "4", "w", "9", "W", "g", "X", "c", "Q">>

NotAUrl == <<"n", "o", "t", " ", "a", " ", "u", "r", "l">>

PlaylistLink == <<"h", "t", "t", "p", "s", ":", "/", "/", "w", "w", "w", ".", "y", "o", "u", "t", "u", "b", "e", ".", "c", "o", "m", "/", "p", "l", "a", "y", "l", "i", "s", "t">>

OtherHostLink == <<"h", "t", "t", "p", "s", ":", "/", "/", "e", "x", "a", "m", "p", "l", "e", ".", "c", "o", "m", "/", "w", "a", "t", "c", "h", "?", "v", "=", "d", "Q", "w", "4", "w", "9", "W", "g", "X", "c", "Q">>

\* what the user may type into the link field
ScreenLinks == {<<>>, NotAUrl, OtherHostLink, PlaylistLink, TestLink, VLink}

\* title of the oEmbed reply; "" when the reply carries none
Titles == {"", "Pasta"}

\* message of a thrown error; "" when it carries none
ErrorMessages == {"", "Network request failed"}

\* caption segments' text fields
CaptionLists == {<<>>, <<<<"a">>>>, <<<<"a">>, <<"b", " ">>>>, <<<<"a", "b">>, <<>>, <<" ", "c">>>>}

\* response.content of the classifier call
ClassifierContents ==
    {[type |-> "string", parts |-> <<t>>] :
        t \in {<<"Y", "e", "s">>, <<"N", "o">>, <<"Y", "e", "s", ",", " ", "t", "h", "i", "s", " ", "i", "s", " ", "a", " ", "r", "e", "c", "i", "p", "e">>, <<"N", "o", ",", " ", "t", "h", "i", "s", " ", "i", "s", " ", "a", " ", "v", "l", "o", "g">>,
               <<"Y", "E", "S", "!">>, <<"O", "h", " ", "m", "y", " ", "e", "y", "e", "s">>, <<"y", " ", "e", " ", "s">>, <<>>}}
        \cup {[type |-> "array", parts |-> <<<<"y", "e", "s">>>>],
              [type |-> "array", parts |-> <<<<"N", "o">>, <<"m", "a", "y", "b", "e">>>>],
              [type |-> "other", parts |-> <<>>]}

\* typeof content === 'string' ? content : Array.isArray(content) ?
\* JSON.stringify(content) : ''
ClassifierText(content) ==
    IF content.type = "string" THEN content.parts[1]
    ELSE IF content.type = "array" THEN JSONStringify(content.parts)
    ELSE <<>>

\* mutant of isCookingVideo: only the bare answer "Yes" counts
isCookingVideoExact(content) == ClassifierText(content) = <<"Y", "e", "s">>

\* responseText.toLowerCase().includes('yes')
isCookingVideo(content) == Includes(ToLowerCase(ClassifierText(content)), <<"y", "e", "s">>)

\* no ProcessResult was returned yet
NoResult == [returned |-> FALSE, success |-> FALSE, error |-> "", title |-> "",
             transcript |-> <<>>, isCookingVideo |-> FALSE]

\* return { success: false, error: error.message || "Failed to process video" }
failureResult(msg) ==
    [NoResult EXCEPT !.returned = TRUE,
                     !.error = IF msg # "" THEN msg ELSE "Failed to process video"]

\* return { success: true, videoInfo, transcript, isCookingVideo }
successResult(title, transcript, cooking) ==
    [NoResult EXCEPT !.returned = TRUE, !.success = TRUE, !.title = title,
                     !.transcript = transcript, !.isCookingVideo = cooking]

\* history of the submission that began last: its link, what each service
\* answered, where it failed and with which thrown message, and the
\* ProcessResult handed back to handleSubmit
NoSub == [phase |-> "none", link |-> <<>>, captions |-> <<>>,
          content |-> [type |-> "none", parts |-> <<>>], navBefore |-> 0,
          oembed |-> "", capOutcome |-> "", failedAt |-> "", thrown |-> "",
          result |-> NoResult]

\* the component's state right after its first render
InputMount ==
    [youtubeLink |-> <<>>,
     isLoading |-> FALSE,
     error |-> "",
     processingStatus |-> "",
     manualApiKey |-> "",
     showApiKeyInput |-> (GOOGLE_API_KEY = ""),
     nav |-> <<>>,            \* history: router.push calls
     net |-> <<>>,            \* history: requests of the submission that began last
     sub |-> NoSub]           \* history: the submission that began last

\* a suspended handleSubmit: where it waits and what it holds
InChain(pc, link, st) ==
    [pc |-> pc, link |-> link, apiKey |-> getApiKey(st), videoId |-> extractVideoId(link),
     title |-> "", transcript |-> <<>>]

\* mutant of failSubmit: the error is shown but isLoading stays set
failSubmitStuck(st, msg) ==
    [st EXCEPT !.error = failureResult(msg).error,
               !.sub.phase = "failed",
               !.sub.thrown = msg,
               !.sub.result = failureResult(msg)]

\* processYoutubeWithLangChain's catch and handleSubmit's !result.success:
\* setError(result.error || 'Failed to process video'); setIsLoading(false)
failSubmit(st, msg) ==
    [st EXCEPT !.error = failureResult(msg).error,
               !.isLoading = FALSE,
               !.sub.phase = "failed",
               !.sub.thrown = msg,
               !.sub.result = failureResult(msg)]

\* mutant of noCaptions: only a missing list counts
noCaptionsNullOnly(outcome, segments) == outcome = "null"

\* !transcriptResult || transcriptResult.length === 0
noCaptions(outcome, segments) == outcome = "null" \/ Len(segments) = 0

\* the params router.push hands to ChatScreen
PushedParams(link, title) ==
    [videoUrl |-> link, videoTitle |-> title, hasTranscript |-> "true"]

\* router.push({pathname: '/chat', params}), then the form is reset
pushChat(st, c, fallback) ==
    [st EXCEPT !.nav = Append(@, PushedParams(c.link,
                                     IF c.title # "" THEN c.title ELSE fallback)),
               !.youtubeLink = <<>>,
               !.isLoading = FALSE,
               !.sub.phase = "navigated"]

\* ChatScreen after its first render and the synchronous part of its mount
\* effect: the welcome message is spoken when a transcript is available
MountedChat(p, whisper, throws) ==
    IF p.hasTranscript = "true"
    THEN speakResponse(ChatMount("chat", p, whisper), Welcome(p), throws)
    ELSE ChatMount("chat", p, whisper)

\* router.push mounts ChatScreen; its setup() is suspended in initEnv
MountChatScreen(p, throws) ==
    /\ route' = "chat"
    /\ params' = p
    /\ cs' = MountedChat(p, env.whisper, throws)
    /\ chains' = <<>>
    /\ setupPc' = "env"
    /\ env' = env

\* disabled={isLoading} of the Continue button, negated
ContinueEnabled(st) == ~st.isLoading

\* onChangeText of the link field (always editable)
SetLink(u) ==
    /\ route = "input"
    /\ u # inp.youtubeLink
    /\ inp' = [inp EXCEPT !.youtubeLink = u]
    /\ UNCHANGED <<inChains, chatVars, ttsVars, exVars, cmdVars, envVars, cookVars>>

\* handlePaste: a placeholder message
HandlePaste ==
    /\ route = "input"
    /\ inp' = [inp EXCEPT !.error = "Paste functionality would be implemented here"]
    /\ UNCHANGED <<inChains, chatVars, ttsVars, exVars, cmdVars, envVars, cookVars>>

\* handleSubmit up to the first await: the three validations, then
\* processYoutubeWithLangChain up to `await fetch(oEmbed)`
SubmitLink ==
    /\ route = "input"
    /\ ContinueEnabled(inp)
    /\ LET link == inp.youtubeLink
           rejected == [NoSub EXCEPT !.phase = "rejected", !.link = link,
                                     !.navBefore = Len(inp.nav)]
       IN  IF link = <<>>
           THEN /\ inp' = [inp EXCEPT !.error = "Please enter a YouTube link",
                                      !.net = <<>>, !.sub = rejected]
                /\ inChains' = inChains
           ELSE IF ~youtubeRegexTest(link)
           THEN /\ inp' = [inp EXCEPT !.error = "Please enter a valid YouTube URL",
                                      !.net = <<>>, !.sub = rejected]
                /\ inChains' = inChains
           ELSE IF getApiKey(inp) = ""
           THEN /\ inp' = [inp EXCEPT !.error = "Please enter your Google Gemini API key",
                                      !.showApiKeyInput = TRUE,
                                      !.net = <<>>, !.sub = rejected]
                /\ inChains' = inChains
           ELSE LET st1 == [inp EXCEPT
                                 !.error = "", !.isLoading = TRUE,
                                 !.processingStatus = "Loading YouTube transcript...",
                                 !.net = <<>>,
                                 !.sub = [NoSub EXCEPT !.phase = "running",
                                                       !.link = link,
                                                       !.navBefore = Len(inp.nav)]]
                       c == InChain("oembed", link, inp)
                   IN  IF c.videoId = NoId
                       THEN /\ inp' = failSubmit([st1 EXCEPT !.sub.failedAt = "extract"],
                                                 "Invalid YouTube URL format")
                            /\ inChains' = inChains
                       ELSE /\ inp' = [st1 EXCEPT
                                         !.processingStatus = "Getting video information...",
                                         !.net = Append(@, "oembed")]
                            /\ inChains' = Append(inChains, c)
    /\ UNCHANGED <<chatVars, ttsVars, exVars, cmdVars, envVars, cookVars>>

\* fetch(oEmbed) settles: rejected (or json() rejected), a non-ok response,
\* or an ok response with its title; then up to `await fetchTranscript`
OembedSettles(i, outcome, title, msg) ==
    /\ route = "input" /\ i \in 1..Len(inChains) /\ inChains[i].pc = "oembed"
    /\ IF outcome = "reject"
       THEN /\ inp' = failSubmit([inp EXCEPT !.sub.oembed = outcome,
                                              !.sub.failedAt = "oembed"], msg)
            /\ inChains' = WithoutAt(inChains, i)
       ELSE /\ inp' = [inp EXCEPT !.processingStatus = "Extracting transcript...",
                                  !.net = Append(@, "captions"),
                                  !.sub.oembed = outcome]
            /\ inChains' = [inChains EXCEPT
                              ![i].pc = "captions",
                              ![i].title = IF outcome = "ok" THEN title ELSE "YouTube Video"]
    /\ UNCHANGED <<chatVars, ttsVars, exVars, cmdVars, envVars, cookVars>>

\* fetchTranscript settles: rejected, null, or a list of segments; a non-empty
\* list is joined and the classifier is invoked (up to `await model.invoke`)
CaptionsSettle(i, outcome, segments, msg) ==
    /\ route = "input" /\ i \in 1..Len(inChains) /\ inChains[i].pc = "captions"
    /\ IF outcome = "reject"
       THEN /\ inp' = failSubmit([inp EXCEPT !.sub.capOutcome = outcome,
                                              !.sub.failedAt = "captions"], msg)
            /\ inChains' = WithoutAt(inChains, i)
       ELSE IF noCaptions(outcome, segments)
       THEN /\ inp' = failSubmit([inp EXCEPT !.sub.capOutcome = outcome,
                                              !.sub.failedAt = "captions"],
                        "Could not extract transcript from this video. It may not have captions available.")
            /\ inChains' = WithoutAt(inChains, i)
       ELSE /\ inp' = [inp EXCEPT !.processingStatus = "Analyzing with Gemini...",
                                  !.net = Append(@, "model"),
                                  !.sub.capOutcome = outcome,
                                  !.sub.captions = segments]
            /\ inChains' = [inChains EXCEPT ![i].pc = "classify",
                                            ![i].transcript = Join(segments, <<" ">>)]
    /\ UNCHANGED <<chatVars, ttsVars, exVars, cmdVars, envVars, cookVars>>

\* model.invoke throws: the failure result is shown
ClassifyFails(i, msg) ==
    /\ route = "input" /\ i \in 1..Len(inChains) /\ inChains[i].pc = "classify"
    /\ inp' = failSubmit([inp EXCEPT !.sub.failedAt = "classify"], msg)
    /\ inChains' = WithoutAt(inChains, i)
    /\ UNCHANGED <<chatVars, ttsVars, exVars, cmdVars, envVars, cookVars>>

\* model.invoke returns: a reply without "yes" raises the alert and
\* handleSubmit returns with isLoading still set; otherwise the chat screen
\* is pushed and the form reset
ClassifySettles(i, content, throws) ==
    /\ route = "input" /\ i \in 1..Len(inChains) /\ inChains[i].pc = "classify"
    /\ LET c == inChains[i]
           st1 == [inp EXCEPT !.sub.content = content,
                              !.sub.result = successResult(c.title, c.transcript,
                                                           isCookingVideo(content))]
       IN  IF ~isCookingVideo(content)
           THEN /\ inp' = [st1 EXCEPT !.sub.phase = "alert"]
                /\ inChains' = [inChains EXCEPT ![i].pc = "alert"]
                /\ UNCHANGED chatVars
           ELSE /\ inp' = pushChat(st1, c, "Cooking Video")
                /\ inChains' = WithoutAt(inChains, i)
                /\ MountChatScreen(inp'.nav[Len(inp'.nav)], throws)
    /\ UNCHANGED <<ttsVars, exVars, cmdVars, envVars, cookVars>>

\* the alert's Cancel button
AlertCancel(i) ==
    /\ route = "input" /\ i \in 1..Len(inChains) /\ inChains[i].pc = "alert"
    /\ inp' = [inp EXCEPT !.isLoading = FALSE, !.sub.phase = "cancelled"]
    /\ inChains' = WithoutAt(inChains, i)
    /\ UNCHANGED <<chatVars, ttsVars, exVars, cmdVars, envVars, cookVars>>

\* the alert's Continue button
AlertContinue(i, throws) ==
    /\ route = "input" /\ i \in 1..Len(inChains) /\ inChains[i].pc = "alert"
    /\ inp' = pushChat(inp, inChains[i], "YouTube Video")
    /\ inChains' = WithoutAt(inChains, i)
    /\ MountChatScreen(inp'.nav[Len(inp'.nav)], throws)
    /\ UNCHANGED <<ttsVars, exVars, cmdVars, envVars, cookVars>>

\* handleSubmit's catch block:
\* setError('An error occurred. Please try again.'); setIsLoading(false)
catchSubmit(st) ==
    [st EXCEPT !.error = "An error occurred. Please try again.",
               !.isLoading = FALSE,
               !.sub.phase = "caught"]

\* handleSubmit after a successful result for a cooking video, where
\* router.push throws: the catch block of handleSubmit
PushThrows(i, content) ==
    /\ route = "input" /\ i \in 1..Len(inChains) /\ inChains[i].pc = "classify"
    /\ isCookingVideo(content)
    /\ inp' = catchSubmit([inp EXCEPT
                             !.sub.content = content,
                             !.sub.result = successResult(inChains[i].title,
                                                          inChains[i].transcript, TRUE)])
    /\ inChains' = WithoutAt(inChains, i)
    /\ UNCHANGED <<chatVars, ttsVars, exVars, cmdVars, envVars, cookVars>>

\* the alert's Continue button where router.push throws: the onPress handler
\* ends at the throw, outside every try
ContinueThrows(i) ==
    /\ route = "input" /\ i \in 1..Len(inChains) /\ inChains[i].pc = "alert"
    /\ inp' = [inp EXCEPT !.sub.phase = "aborted"]
    /\ inChains' = WithoutAt(inChains, i)
    /\ UNCHANGED <<chatVars, ttsVars, exVars, cmdVars, envVars, cookVars>>

NextInput ==
    \/ \E u \in ScreenLinks : SetLink(u)
    \/ HandlePaste
    \/ SubmitLink
    \/ \E i \in 1..Len(inChains), outcome \in {"ok", "notok", "reject"},
          title \in env.titles, msg \in env.errors :
           OembedSettles(i, outcome, title, msg)
    \/ \E i \in 1..Len(inChains), outcome \in {"list", "null", "reject"},
          segments \in env.captions, msg \in env.errors :
           CaptionsSettle(i, outcome, segments, msg)
    \/ \E i \in 1..Len(inChains), msg \in env.errors : ClassifyFails(i, msg)
    \/ \E i \in 1..Len(inChains), content \in env.classifier, throws \in BOOLEAN :
           ClassifySettles(i, content, throws)
    \/ \E i \in 1..Len(inChains) : AlertCancel(i)
    \/ \E i \in 1..Len(inChains), throws \in BOOLEAN : AlertContinue(i, throws)

\* the link screen is freshly mounted
InitInput ==
    /\ inp = InputMount
    /\ inChains = <<>>

\* what ChatScreen can be opened with: pushed by the link screen, or the
\* bare route
ChatParams == {NoParams, PushedParams(TestLink, "Pasta")}

\* The world around the application, fixed for a run: the GOOGLE_API_KEY the
\* env loader finds (or not), whether whisper.rn loads, and what the hosted
\* services may answer.
Env(key, whisper) ==
    [key |-> key, whisper |-> whisper,
     titles |-> Titles, captions |-> CaptionLists, classifier |-> ClassifierContents,
     errors |-> ErrorMessages, contents |-> Contents, transcriptions |-> Transcriptions]

\* a world whose services give one kind of good answer each
PlainEnv(key, whisper) ==
    [Env(key, whisper) EXCEPT
       !.titles = {"Pasta"},
       !.captions = {<<>>, <<<<"a">>, <<"b", " ">>>>},
       !.classifier = {[type |-> "string", parts |-> <<t>>] : t \in {<<"Y", "e", "s">>, <<"N", "o">>}},
       !.errors = {"Network request failed"},
       !.contents = {c \in Contents : c.type = "string"},
       !.transcriptions = {t \in Transcriptions : ~t.ok \/ Len(t.segments) = 2}]

Envs == {Env(key, whisper) : key \in {"", "KEY"}, whisper \in BOOLEAN}

PlainEnvs == {PlainEnv(key, whisper) : key \in {"", "KEY"}, whisper \in BOOLEAN}

\* no chat screen is mounted
NoChat ==
    /\ params = NoParams
    /\ cs = ChatMount("voice", NoParams, FALSE)
    /\ chains = <<>>
    /\ setupPc = "env"

\* the application shows the link screen
InitLink ==
    /\ route = "input"
    /\ env \in Envs
    /\ NoChat

\* a chat screen has just mounted: the RecipeVoiceScreen tab, or ChatScreen
InitChat ==
    /\ env \in Envs
    /\ \/ /\ route = "voice"
          /\ params = NoParams
          /\ cs = ChatMount("voice", NoParams, FALSE)
       \/ /\ route = "chat"
          /\ params \in ChatParams
          /\ \E throws \in BOOLEAN : cs = MountedChat(params, env.whisper, throws)
    /\ chains = <<>>
    /\ setupPc = "env"

\* the application shows one of its tabs: the link screen or RecipeVoiceScreen
InitApp ==
    /\ route \in {"input", "voice"}
    /\ env \in PlainEnvs
    /\ NoChat

(***************************************************************************)
(* utils/env.ts                                                            *)
(***************************************************************************)
NL == "\n"

\* String.prototype.split with a one-character separator
RECURSIVE Split(_, _)
Split(s, sep) ==
    IF \A i \in 1..Len(s) : s[i] # sep THEN <<s>>
    ELSE LET p == CHOOSE i \in 1..Len(s) : s[i] = sep /\ \A j \in 1..(i - 1) : s[j] # sep
         IN  <<SubSeq(s, 1, p - 1)>> \o Split(SubSeq(s, p + 1, Len(s)), sep)

\* [\w.-]
IsNameChar(c) == IsWordChar(c) \/ c \in {".", "-"}

\* the position after the longest run of name characters that starts at p
RECURSIVE NameEnd(_, _)
NameEnd(s, p) == IF p <= Len(s) /\ IsNameChar(s[p]) THEN NameEnd(s, p + 1) ELSE p

NoVar == [key |-> <<>>, value |-> <<>>]

\* line.match(/^\s*([\w.-]+)\s*=\s*(.*)?\s*$/), `match[2] || ''`, and the
\* removal of a pair of double quotes around the value
parseLine(line) ==
    LET s1    == TrimStart(line)
        e     == NameEnd(s1, 1)
        rest  == TrimStart(SubSeq(s1, e, Len(s1)))
        raw   == TrimStart(Tail(rest))
        value == IF raw # <<>> /\ Head(raw) = "\"" /\ raw[Len(raw)] = "\""
                 THEN SubSeq(raw, 2, Len(raw) - 1)
                 ELSE raw
    IN  IF e = 1 \/ rest = <<>> \/ Head(rest) # "=" THEN NoVar
        ELSE [key |-> SubSeq(s1, 1, e - 1), value |-> value]

\* line.startsWith('#') || !line.trim()
Skipped(line) == (line # <<>> /\ Head(line) = "#") \/ Trim(line) = <<>>

EmptyCache == [k \in {} |-> <<>>]

\* envCache[key] = value
Put(cache, key, value) ==
    [k \in DOMAIN cache \cup {key} |-> IF k = key THEN value ELSE cache[k]]

RECURSIVE parseLines(_, _)
parseLines(cache, lines) ==
    IF lines = <<>> THEN cache
    ELSE LET v == parseLine(Head(lines))
         IN  parseLines(IF Skipped(Head(lines)) \/ v = NoVar
                        THEN cache
                        ELSE Put(cache, v.key, v.value),
                        Tail(lines))

\* parseEnvFile: the variables of content are written into the cache
parseEnvFile(cache, content) == parseLines(cache, Split(content, NL))

\* getEnv
getEnv(cache, key, defaultValue) ==
    IF key \in DOMAIN cache /\ cache[key] # <<>> THEN cache[key] ELSE defaultValue

GoogleKey == <<"G", "O", "O", "G", "L", "E", "_", "A", "P", "I", "_", "K", "E", "Y">>

\* the constant of loadEnvFromFile, shortened
hardcodedApiKey == <<"A", "I", "z", "a", "S", "y">>

\* possibleLocations, after filter(Boolean)
possibleLocations(os) ==
    SelectSeq(<<"document.env", "bundle.env", "document/.env", "bundle/.env",
                IF os = "ios" THEN "bundle../.env" ELSE "",
                IF os = "ios" THEN "document../.env" ELSE "",
                IF os = "android" THEN "document../assets/.env" ELSE "">>,
              LAMBDA l : l # "")

\* .env files of a run: one with variables, one without
KeyFile == <<"G", "O", "O", "G", "L", "E", "_", "A", "P", "I", "_", "K", "E", "Y", " ", "=", " ", "\"", "f", "i", "l", "e", "-", "k", "e", "y", "\"">> \o <<NL>> \o <<"M", "O", "D", "E", "L", "=", "g", "e", "m", "i", "n", "i", " ">> \o <<NL>>

CommentFile == <<"#", " ", "G", "O", "O", "G", "L", "E", "_", "A", "P", "I", "_", "K", "E", "Y", "=">> \o <<NL>> \o <<NL>> \o <<" ", " ">> \o <<NL>> \o <<"n", "o", " ", "v", "a", "r", "i", "a", "b", "l", "e">>

EnvFiles == {KeyFile, CommentFile}

Absent == [exists |-> FALSE, content |-> <<>>]

\* the platforms and the file systems of a run: at most MaxFiles locations
\* hold a file
FsWorlds ==
    UNION {
      {[os |-> os, files |-> f] :
         f \in {g \in [Range(possibleLocations(os)) ->
                          {Absent} \cup {[exists |-> TRUE, content |-> c] : c \in EnvFiles}] :
                  Cardinality({l \in DOMAIN g : g[l].exists}) <= MaxFiles}}
      : os \in {"ios", "android"}}

Locs == possibleLocations(envFs.os)

Probe(op, loc) == [op |-> op, loc |-> loc, out |-> "pending"]

\* the outcome of the call's pending file-system operation
settle(call, out) == [call EXCEPT !.probes[Len(call.probes)].out = out]

NewCall ==
    [pc |-> "start", idx |-> 0, fileFound |-> FALSE, probes |-> <<>>,
     warm |-> \E c \in 1..Len(envCalls) : envCalls[c].pc = "done",
     returned |-> EmptyCache, fallback |-> FALSE, failed |-> FALSE]

\* loadEnvFromFile after the loop: the hardcoded key when no file was found,
\* isInitialized = true, return envCache
finishLoad(call, cache) ==
    LET c2 == IF call.fileFound THEN cache ELSE Put(cache, GoogleKey, hardcodedApiKey)
    IN  [cache |-> c2,
         call  |-> [call EXCEPT !.pc = "done", !.returned = c2,
                                !.fallback = ~call.fileFound]]

\* mutant of nextLocation: the probe ends at the location that failed
nextLocationStop(call, cache, locs) == finishLoad(call, cache)

\* the for loop goes on: getInfoAsync of the next location, or the loop ends
nextLocation(call, cache, locs) ==
    IF call.idx < Len(locs)
    THEN [cache |-> cache,
          call  |-> [call EXCEPT !.pc = "info", !.idx = @ + 1,
                                 !.probes = Append(@, Probe("info", locs[call.idx + 1]))]]
    ELSE finishLoad(call, cache)

InitEnv ==
    /\ envCache = EmptyCache
    /\ isInitialized = FALSE
    /\ envFs \in FsWorlds
    /\ envCalls = <<>>
    /\ envLoaded = {}

IdleEnv ==
    /\ envCache = EmptyCache
    /\ isInitialized = FALSE
    /\ envFs = [os |-> "android",
                files |-> [l \in Range(possibleLocations("android")) |-> Absent]]
    /\ envCalls = <<>>
    /\ envLoaded = {}

\* the errors thrown so far
RECURSIVE Errors(_)
Errors(calls) ==
    IF calls = <<>> THEN 0
    ELSE (IF Head(calls).failed THEN 1 ELSE 0)
         + Cardinality({i \in 1..Len(Head(calls).probes) : Head(calls).probes[i].out = "error"})
         + Errors(Tail(calls))

MayThrow(throws) == throws => Errors(envCalls) < MaxErrors

\* the call r.call of loadEnvFromFile went on to r
Returns(c, r, loaded) ==
    /\ envCache' = r.cache
    /\ envCalls' = [envCalls EXCEPT ![c] = r.call]
    /\ isInitialized' = (isInitialized \/ r.call.pc = "done")
    /\ envLoaded' = IF r.call.fallback THEN loaded \ {GoogleKey} ELSE loaded

\* loadEnvFromFile (and initEnv, which awaits it) up to its first await: the
\* cache is returned; or the try block throws before the loop and the catch
\* returns the cache; or getInfoAsync of the first location is awaited
LoadEnvFromFile(throws) ==
    /\ Len(envCalls) < MaxLoads /\ MayThrow(throws)
    /\ IF isInitialized /\ DOMAIN envCache # {}
       THEN /\ envCalls' = Append(envCalls, [NewCall EXCEPT !.pc = "done", !.returned = envCache])
            /\ UNCHANGED <<envCache, isInitialized, envLoaded>>
       ELSE IF throws
       THEN /\ envCalls' = Append(envCalls, [NewCall EXCEPT !.pc = "done", !.returned = envCache,
                                                            !.failed = TRUE])
            /\ isInitialized' = TRUE
            /\ UNCHANGED <<envCache, envLoaded>>
       ELSE /\ envCalls' = Append(envCalls, [NewCall EXCEPT !.pc = "info", !.idx = 1,
                                                            !.probes = <<Probe("info", Locs[1])>>])
            /\ UNCHANGED <<envCache, isInitialized, envLoaded>>
    /\ UNCHANGED <<envFs, ttsVars, chatVars, inputVars, exVars, cmdVars, cookVars>>

\* the loop after `await FileSystem.getInfoAsync(location)`: the file is
\* read, or the loop goes on (no file there, or the inner catch)
InfoSettles(c, throws) ==
    /\ c \in 1..Len(envCalls) /\ envCalls[c].pc = "info" /\ MayThrow(throws)
    /\ LET call == envCalls[c]
           file == envFs.files[Locs[call.idx]]
       IN  IF throws
           THEN Returns(c, nextLocation(settle(call, "error"), envCache, Locs), envLoaded)
           ELSE IF ~file.exists
           THEN Returns(c, nextLocation(settle(call, "absent"), envCache, Locs), envLoaded)
           ELSE /\ envCalls' = [envCalls EXCEPT ![c] =
                                  [settle(call, "exists") EXCEPT
                                      !.pc = "read",
                                      !.probes = Append(@, Probe("read", Locs[call.idx]))]]
                /\ UNCHANGED <<envCache, isInitialized, envLoaded>>
    /\ UNCHANGED <<envFs, ttsVars, chatVars, inputVars, exVars, cmdVars, cookVars>>

\* the loop after `await FileSystem.readAsStringAsync(location)`:
\* parseEnvFile, fileFound = true, break and the rest of the function; or the
\* inner catch and the next location
ReadSettles(c, throws) ==
    /\ c \in 1..Len(envCalls) /\ envCalls[c].pc = "read" /\ MayThrow(throws)
    /\ LET call    == envCalls[c]
           content == envFs.files[Locs[call.idx]].content
       IN  IF throws
           THEN Returns(c, nextLocation(settle(call, "error"), envCache, Locs), envLoaded)
           ELSE Returns(c, finishLoad([settle(call, "content") EXCEPT !.fileFound = TRUE],
                                      parseEnvFile(envCache, content)),
                        envLoaded \cup DOMAIN parseEnvFile(EmptyCache, content))
    /\ UNCHANGED <<envFs, ttsVars, chatVars, inputVars, exVars, cmdVars, cookVars>>

NextEnv ==
    \/ \E throws \in BOOLEAN : LoadEnvFromFile(throws)
    \/ \E c \in 1..MaxLoads, throws \in BOOLEAN : InfoSettles(c, throws)
    \/ \E c \in 1..MaxLoads, throws \in BOOLEAN : ReadSettles(c, throws)

(***************************************************************************)
(* CookingSession                                                          *)
(***************************************************************************)
\* String(n) of a natural number
RECURSIVE Decimal(_)
Decimal(n) ==
    IF n < 10 THEN <<Digits[n + 1]>> ELSE Decimal(n \div 10) \o <<Digits[(n % 10) + 1]>>

\* the fields of a session that the step methods read and write
CookState == [currentStep |-> currentStep, progress |-> progress]

\* mutant of advanceStep: the step is advanced without looking at the recipe
advanceStepUnguarded(rec, st) ==
    [st  |-> [currentStep |-> st.currentStep + 1,
              progress |-> Append(st.progress, <<"C", "o", "m", "p", "l", "e", "t", "e", "d", " ", "s", "t", "e", "p", " ">> \o Decimal(st.currentStep + 1))],
     ret |-> TRUE]

\* advanceStep
advanceStep(rec, st) ==
    IF st.currentStep < Len(rec.steps) - 1
    THEN [st  |-> [currentStep |-> st.currentStep + 1,
                   progress |-> Append(st.progress,
                                       <<"C", "o", "m", "p", "l", "e", "t", "e", "d", " ", "s", "t", "e", "p", " ">> \o Decimal(st.currentStep + 1))],
          ret |-> TRUE]
    ELSE [st |-> st, ret |-> FALSE]

\* Array.prototype.pop
Pop(s) == IF s = <<>> THEN s ELSE SubSeq(s, 1, Len(s) - 1)

\* mutant of goToPreviousStep: the step is decremented without a check
goToPreviousStepUnguarded(rec, st) ==
    [st |-> [currentStep |-> st.currentStep - 1, progress |-> Pop(st.progress)], ret |-> TRUE]

\* goToPreviousStep
goToPreviousStep(rec, st) ==
    IF st.currentStep > 0
    THEN [st |-> [currentStep |-> st.currentStep - 1, progress |-> Pop(st.progress)],
          ret |-> TRUE]
    ELSE [st |-> st, ret |-> FALSE]

\* getProgress
getProgress ==
    [currentStep |-> currentStep + 1, totalSteps |-> Len(recipe.steps),
     completedSteps |-> Len(progress)]

\* what the user says to processUserInput
CookInputs ==
    {<<"N", "e", "x", "t", " ", "s", "t", "e", "p", " ", "p", "l", "e", "a", "s", "e">>, <<"g", "o", " ", "t", "o", " ", "t", "h", "e", " ", "p", "r", "e", "v", "i", "o", "u", "s", " ", "s", "t", "e", "p">>, <<"w", "h", "a", "t", " ", "n", "o", "w">>,
     <<"p", "r", "e", "v", "i", "o", "u", "s", " ", "s", "t", "e", "p", ",", " ", "t", "h", "e", "n", " ", "t", "h", "e", " ", "N", "E", "X", "T", " ", "S", "T", "E", "P">>}

NoCookCall == [op |-> "", ret |-> FALSE, before |-> [currentStep |-> 0, progress |-> <<>>]]

\* a session as its constructor leaves it, over a recipe with some steps
InitCook ==
    /\ recipe \in {[steps |-> [i \in 1..n |-> <<"s", "t", "e", "p", " ">> \o Decimal(i)]] : n \in 1..MaxSteps}
    /\ currentStep = 0
    /\ progress = <<>>
    /\ cookCalls = [pending |-> <<>>, made |-> 0, last |-> NoCookCall]

IdleCook ==
    /\ recipe = [steps |-> <<<<"s", "t", "e", "p", " ", "1">>>>]
    /\ currentStep = 0
    /\ progress = <<>>
    /\ cookCalls = [pending |-> <<>>, made |-> 0, last |-> NoCookCall]

\* a step method returned r
Stepped(op, r, pending) ==
    /\ currentStep' = r.st.currentStep
    /\ progress' = r.st.progress
    /\ cookCalls' = [cookCalls EXCEPT !.pending = pending,
                                      !.last = [op |-> op, ret |-> r.ret, before |-> CookState]]
    /\ UNCHANGED <<recipe, ttsVars, chatVars, inputVars, exVars, cmdVars, envVars>>

\* a call of session.advanceStep()
AdvanceStep == Stepped("advanceStep", advanceStep(recipe, CookState), cookCalls.pending)

\* a call of session.goToPreviousStep()
GoToPreviousStep ==
    Stepped("goToPreviousStep", goToPreviousStep(recipe, CookState), cookCalls.pending)

\* processUserInput up to `await this.chain.call(...)`
ProcessUserInput(input) ==
    /\ cookCalls.made < MaxChainCalls
    /\ cookCalls' = [cookCalls EXCEPT !.pending = Append(@, input), !.made = @ + 1]
    /\ UNCHANGED <<recipe, currentStep, progress, ttsVars, chatVars, inputVars, exVars,
                   cmdVars, envVars>>

\* processUserInput after the chain's answer: the step commands in the input;
\* or the chain rejected and the call threw
ChainSettles(i, ok) ==
    /\ i \in 1..Len(cookCalls.pending)
    /\ LET input == cookCalls.pending[i]
           rest  == WithoutAt(cookCalls.pending, i)
       IN  IF ok /\ Includes(ToLowerCase(input), <<"n", "e", "x", "t", " ", "s", "t", "e", "p">>)
           THEN Stepped("advanceStep", advanceStep(recipe, CookState), rest)
           ELSE IF ok /\ Includes(ToLowerCase(input), <<"p", "r", "e", "v", "i", "o", "u", "s", " ", "s", "t", "e", "p">>)
           THEN Stepped("goToPreviousStep", goToPreviousStep(recipe, CookState), rest)
           ELSE /\ cookCalls' = [cookCalls EXCEPT !.pending = rest]
                /\ UNCHANGED <<recipe, currentStep, progress, ttsVars, chatVars, inputVars,
                               exVars, cmdVars, envVars>>

NextCook ==
    \/ AdvanceStep
    \/ GoToPreviousStep
    \/ \E input \in CookInputs : ProcessUserInput(input)
    \/ \E i \in 1..MaxChainCalls, ok \in BOOLEAN : ChainSettles(i, ok)

\* nothing of the screens moves
IdleScreens ==
    /\ route = "input"
    /\ env = PlainEnv("KEY", FALSE)
    /\ NoChat

InitTtsAlone == InitTts /\ IdleScreens /\ InitInput /\ IdleExtract /\ IdleDetect /\ IdleEnv /\ IdleCook

SpecTts ==
    /\ InitTtsAlone
    /\ [][NextTts /\ UNCHANGED <<chatVars, inputVars, exVars, cmdVars, envVars, cookVars>>]_vars

InitExtractAlone == InitTts /\ IdleScreens /\ InitInput /\ InitExtract /\ IdleDetect /\ IdleEnv /\ IdleCook

SpecSession ==
    /\ InitTtsAlone
    /\ [][NextSession /\ UNCHANGED <<chatVars, inputVars, exVars, cmdVars, envVars, cookVars>>]_vars

\* the env loader alone: some calls of loadEnvFromFile over a file system
InitEnvAlone ==
    InitTts /\ IdleScreens /\ InitInput /\ IdleExtract /\ IdleDetect /\ InitEnv /\ IdleCook

SpecEnv ==
    /\ InitEnvAlone
    /\ [][NextEnv]_vars

\* a CookingSession alone: step calls and processUserInput
InitCookAlone ==
    InitTts /\ IdleScreens /\ InitInput /\ IdleExtract /\ IdleDetect /\ IdleEnv /\ InitCook

SpecCook ==
    /\ InitCookAlone
    /\ [][NextCook]_vars

\* the service without clearQueue(), where the platform ends every utterance
\* it plays (onDone) and settles every Speech.stop() it was asked for
SpecQueueLive ==
    /\ InitTtsAlone
    /\ [][NextQueue /\ UNCHANGED <<chatVars, inputVars, exVars, cmdVars, envVars, cookVars>>]_vars
    /\ WF_vars(OnDone /\ UNCHANGED <<chatVars, inputVars, exVars, cmdVars, envVars, cookVars>>)
    /\ WF_vars(StopSettles /\ UNCHANGED <<chatVars, inputVars, exVars, cmdVars, envVars, cookVars>>)

SpecExtract ==
    /\ InitExtractAlone
    /\ [][NextExtract]_vars

\* detectCommand and handleCommand applied to a family of utterances
InitDetectAlone == InitTts /\ IdleScreens /\ InitInput /\ IdleExtract /\ InitDetect /\ IdleEnv /\ IdleCook

SpecDetect ==
    /\ InitDetectAlone
    /\ [][NextDetect]_vars

\* the link screen alone, up to the mount of ChatScreen
InitLinkAlone == InitTts /\ InitLink /\ InitInput /\ IdleExtract /\ IdleDetect /\ IdleEnv /\ IdleCook

SpecInput ==
    /\ InitLinkAlone
    /\ [][NextInput]_vars

\* the link screen where the navigation may throw
NextInputFaults ==
    \/ NextInput
    \/ \E i \in 1..Len(inChains), content \in env.classifier : PushThrows(i, content)
    \/ \E i \in 1..Len(inChains) : ContinueThrows(i)

SpecInputFaults ==
    /\ InitLinkAlone
    /\ [][NextInputFaults]_vars

\* the whole application: the link screen, the ChatScreen it pushes, and the
\* RecipeVoiceScreen tab
InitWholeApp == InitTts /\ InitApp /\ InitInput /\ IdleExtract /\ IdleDetect /\ IdleEnv /\ IdleCook

NextApp == NextInput \/ NextChat

SpecApp ==
    /\ InitWholeApp
    /\ [][NextApp]_vars

Init == InitTts /\ InitChat /\ InitInput /\ IdleExtract /\ IdleDetect /\ IdleEnv /\ IdleCook

Next == NextChat

\* a chat screen alone, from its mount
Spec == Init /\ [][Next]_vars

\* a chat screen from its mount to its unmount
InitLife == InitTts /\ InitChat /\ InitInput /\ IdleExtract /\ IdleDetect /\ IdleEnv /\ IdleCook

NextLife == NextChat \/ Unmount

SpecLife == InitLife /\ [][NextLife]_vars

(***************************************************************************)
(* Claims about TextToSpeechService                                        *)
(***************************************************************************)
UtterIds == 1..Len(ttsSubs)

Started(id) == FirstIdx(ttsLog, "start", id) # 0

\* the utterance ended (onDone, or halted by Speech.stop) before log index i
EndedBefore(id, i) ==
    \/ FirstIdx(ttsLog, "done", id) \in 1..(i - 1)
    \/ FirstIdx(ttsLog, "halt", id) \in 1..(i - 1)

\* only speak() calls were made so far: no explicit stop(), no clearQueue()
OnlySpeakCalls == ttsCalls.stop = 0 /\ ttsCalls.clear = 0 /\ ttsCalls.cancels = <<>>

\* C4: at most one utterance at a time. No utterance is handed to the speech
\* primitive while an earlier one has neither completed nor been stopped, so
\* the primitive never holds two utterances.
C4_AtMostOneUtterance == Len(ttsPlaying) <= 1

\* C5: two non-empty normal-priority utterances a, b submitted back to back,
\* with no priority call, stop() or clearQueue() in the behaviour: b starts
\* only after a's onDone, and once the primitive has fallen silent both have
\* been started.
C5_NormalInOrder ==
    (OnlySpeakCalls /\ \A i \in UtterIds : ~ttsSubs[i].prio) =>
        \A a \in UtterIds :
            LET b == a + 1
            IN  (b \in UtterIds /\ ~ttsSubs[a].empty /\ ~ttsSubs[b].empty) =>
                    /\ Started(b) =>
                          /\ Started(a)
                          /\ FirstIdx(ttsLog, "done", a)
                                 \in 1..(FirstIdx(ttsLog, "start", b) - 1)
                    /\ ttsPlaying = <<>> => (Started(a) /\ Started(b))

\* C6: a priority utterance p submitted while another utterance was playing
\* (only speak() calls in the behaviour): the playing utterance is halted, and
\* every normal utterance w that was waiting in the queue at that moment is
\* started only after p was started and has ended.
C6_PriorityFirst ==
    OnlySpeakCalls =>
        \A p \in UtterIds :
            (ttsSubs[p].prio /\ ttsSubs[p].playingAtSubmit # <<>>) =>
                /\ \A c \in Range(ttsSubs[p].playingAtSubmit) :
                       FirstIdx(ttsLog, "halt", c) # 0
                /\ \A w \in Range(ttsSubs[p].waitingAtSubmit) :
                       Started(w) =>
                           /\ FirstIdx(ttsLog, "start", p)
                                  \in 1..(FirstIdx(ttsLog, "start", w) - 1)
                           /\ EndedBefore(p, FirstIdx(ttsLog, "start", w))

(***************************************************************************)
(* Claims about the conversation turn (chat screens).                      *)
(***************************************************************************)
\* C1: when handleSubmit ran with non-blank input on a turn sequence of
\* length N and the model call returned, the sequence has length N+2: the
\* old sequence, then the user turn with the trimmed input, then the
\* assistant turn with the reply text.
C1_TurnSuccess ==
    (cs.lastTurn.via = "text" /\ cs.lastTurn.phase = "ok") =>
        /\ Len(cs.messages) = Len(cs.lastTurn.base) + 2
        /\ cs.messages = cs.lastTurn.base \o
                           <<Turn("user", Trim(cs.lastTurn.input)),
                             Turn("assistant", ResponseText(cs.lastTurn.content))>>

\* the second text turn of a screen got its reply
C1_Witness ==
    /\ cs.lastTurn.via = "text" /\ cs.lastTurn.phase = "ok"
    /\ Len(cs.lastTurn.base) = 3 /\ Len(cs.messages) = 5

\* C2: when the model call fails (no API key, or model.invoke throws) the
\* sequence gains exactly the user turn and the fixed apology, the handler
\* ends there (no model call is left pending) and the apology is handed to
\* speakResponse; a turn that got a reply gained
\* exactly one assistant turn, and a turn without an assistant turn is still
\* waiting for the model.
C2_TurnFailure ==
    /\ cs.lastTurn.phase = "failed" =>
          /\ cs.messages = cs.lastTurn.base \o
                             <<Turn("user", Trim(cs.lastTurn.input)),
                               Turn("assistant", Apology)>>
          /\ cs.spoken = Apology
          /\ \A i \in 1..Len(chains) : chains[i].pc # "invoke"
    /\ cs.lastTurn.phase = "ok" =>
          /\ Len(cs.messages) = Len(cs.lastTurn.base) + 2
          /\ cs.messages[Len(cs.messages)].content # Apology
    /\ cs.lastTurn.phase = "running" =>
          /\ Len(cs.messages) = Len(cs.lastTurn.base) + 1
          /\ \E i \in 1..Len(chains) : chains[i].pc = "invoke"

\* model.invoke threw on a voice turn although a key is configured
C2_Witness ==
    /\ cs.lastTurn.phase = "failed" /\ cs.lastTurn.via = "voice"
    /\ cs.apiKey # "" /\ Len(cs.messages) = Len(cs.lastTurn.base) + 2

\* C3: the turn sequence always starts with the screen's assistant greeting,
\* its roles alternate assistant, user, assistant, ..., and every step leaves
\* the old sequence as a prefix of the new one.
C3_TurnSequence ==
    /\ [](/\ Len(cs.messages) >= 1
          /\ cs.messages[1] = Turn("assistant", Greeting(route, params, env.whisper))
          /\ \A i \in 1..Len(cs.messages) :
                cs.messages[i].role = IF i % 2 = 1 THEN "assistant" ELSE "user")
    /\ [][IsPrefix(cs.messages, cs.messages')]_vars

\* a text turn and then a voice turn have both been answered
C3_Witness ==
    /\ Len(cs.messages) = 5
    /\ cs.messages[2].role = "user" /\ cs.messages[4].role = "user"
    /\ cs.lastTurn.via = "voice" /\ cs.lastTurn.phase \in {"ok", "failed"}

(***************************************************************************)
(* Claims about the request chains of the screens.                         *)
(***************************************************************************)
\* C7: on the link screen and on each chat screen at most one request chain
\* is in flight; while one is, the Continue button, the send button, the text
\* field and the microphone button are disabled.
C7_SingleChain ==
    /\ Len(inChains) <= 1
    /\ Len(chains) <= 1
    /\ inChains # <<>> => ~ContinueEnabled(inp)
    /\ chains # <<>> =>
          /\ ~SendEnabled(route, cs)
          /\ ~Editable(route, cs)
          /\ route = "chat" => ~MicEnabled(cs)

\* a voice turn is in flight on the ChatScreen that a link chain pushed
C7_Witness ==
    /\ Len(inp.nav) = 1 /\ route = "chat"
    /\ Len(chains) = 1 /\ chains[1].via = "voice" /\ chains[1].pc = "invoke"

\* C8: a submitted link whose identifier is extracted, whose captions are
\* non-empty and whose classifier reply contains "yes" (in any case) has
\* pushed the chat screen exactly once, with videoUrl = the submitted link
\* and hasTranscript = 'true', and has left the link field empty and
\* isLoading false.
C8_SuccessNavigates ==
    (/\ inp.sub.content.type # "none"
     /\ Includes(ToLowerCase(ClassifierText(inp.sub.content)), <<"y", "e", "s">>)) =>
        /\ extractVideoId(inp.sub.link) # NoId
        /\ inp.sub.captions # <<>>
        /\ inp.sub.phase = "navigated"
        /\ Len(inp.nav) = inp.sub.navBefore + 1
        /\ inp.nav[Len(inp.nav)].videoUrl = inp.sub.link
        /\ inp.nav[Len(inp.nav)].hasTranscript = "true"
        /\ route = "chat" /\ params = inp.nav[Len(inp.nav)]
        /\ inp.youtubeLink = <<>>
        /\ ~inp.isLoading

\* the smoke test's link, with captions and the reply "Yes", was submitted
C8_Witness ==
    /\ inp.sub.link = TestLink
    /\ inp.sub.captions # <<>>
    /\ inp.sub.content = [type |-> "string", parts |-> <<<<"Y", "e", "s">>>>]
    /\ route = "chat" /\ params.videoTitle = "Pasta"

\* non-empty strings that do not start like a YouTube address
NonYoutubeLinks == {NotAUrl, OtherHostLink}

\* C9: a step that submits a non-empty string outside the YouTube host
\* pattern sets the error to "Please enter a valid YouTube URL", pushes no
\* screen, starts no request and leaves isLoading false.
C9_InvalidUrl ==
    [][(/\ inp'.sub # inp.sub
        /\ inp'.sub.link \in NonYoutubeLinks) =>
          /\ inp'.error = "Please enter a valid YouTube URL"
          /\ inp'.nav = inp.nav /\ route' = "input"
          /\ inp'.net = <<>> /\ inChains' = <<>>
          /\ ~inp'.isLoading]_vars

\* "not a url" was submitted
C9_Witness ==
    /\ inp.sub.phase = "rejected" /\ inp.sub.link = NotAUrl
    /\ inp.error = "Please enter a valid YouTube URL"

(***************************************************************************)
(* Claim about extractVideoId.                                             *)
(***************************************************************************)
\* C10: for every 11-character identifier the watch link, the short link and
\* the embed link give the identifier back, also with '&', '?' or '#' parts
\* after it; a string of none of these shapes gives null, and whatever is
\* returned has 11 characters.
C10_SameIdentifier ==
    exOut.done =>
        /\ (exIn.kind = "link" /\ Len(exIn.seg) = 11) => exOut.id = exIn.seg
        /\ exIn.kind = "other" => exOut.id = NoId
        /\ exOut.id # NoId => Len(exOut.id) = 11

(***************************************************************************)
(* Claims about the link screen's chain (processYoutubeWithLangChain).     *)
(***************************************************************************)
\* the three characters y, e, s in a row, in either case
HasYes(text) ==
    \E p \in 1..(Len(text) - 2) :
        /\ text[p] \in {"y", "Y"}
        /\ text[p + 1] \in {"e", "E"}
        /\ text[p + 2] \in {"s", "S"}

\* the reply of the classifier as the record the model call returned it
StringReply(t) == [type |-> "string", parts |-> <<t>>]

\* C11: the ProcessResult's isCookingVideo is true exactly when the reply
\* text contains "yes" in any case, anywhere: for a string reply the string,
\* for an array reply its JSON text (so: one of its parts); a reply that is
\* neither is classified false. "Yes, this is a recipe" is true and
\* "No, this is a vlog" is false.
C11_ClassifierResult ==
    inp.sub.result.success =>
        LET content == inp.sub.content
            cooking == inp.sub.result.isCookingVideo
        IN  /\ content.type = "string" => (cooking <=> HasYes(content.parts[1]))
            /\ content.type = "array" =>
                   (cooking <=> \E k \in 1..Len(content.parts) : HasYes(content.parts[k]))
            /\ content.type = "other" => ~cooking
            /\ content = StringReply(<<"Y", "e", "s", ",", " ", "t", "h", "i", "s", " ", "i", "s", " ", "a", " ", "r", "e", "c", "i", "p", "e">>) => cooking
            /\ content = StringReply(<<"N", "o", ",", " ", "t", "h", "i", "s", " ", "i", "s", " ", "a", " ", "v", "l", "o", "g">>) => ~cooking

\* the classifier answered "Yes, this is a recipe" and the result says cooking
C11_Witness ==
    /\ inp.sub.result.success /\ inp.sub.result.isCookingVideo
    /\ inp.sub.content = StringReply(<<"Y", "e", "s", ",", " ", "t", "h", "i", "s", " ", "i", "s", " ", "a", " ", "r", "e", "c", "i", "p", "e">>)

\* where segment i begins in a text that holds the segments with one
\* character between consecutive ones
RECURSIVE StartOf(_, _)
StartOf(segs, i) ==
    IF i = 1 THEN 1 ELSE StartOf(segs, i - 1) + Len(segs[i - 1]) + 1

\* t is the segments in order, one space between consecutive segments,
\* nothing before the first and nothing after the last
SpaceJoined(t, segs) ==
    /\ segs # <<>>
    /\ Len(t) = StartOf(segs, Len(segs)) + Len(segs[Len(segs)]) - 1
    /\ \A i \in 1..Len(segs) :
           SubSeq(t, StartOf(segs, i), StartOf(segs, i) + Len(segs[i]) - 1) = segs[i]
    /\ \A i \in 1..(Len(segs) - 1) : t[StartOf(segs, i) + Len(segs[i])] = " "

\* C12: the transcript the loader builds from a non-empty list of caption
\* segments (held by the chain while the classifier runs, and returned in the
\* ProcessResult) is the segments' texts in their order with exactly one
\* space between consecutive segments and nothing around them.
C12_TranscriptJoin ==
    /\ \A i \in 1..Len(inChains) :
           inChains[i].pc \in {"classify", "alert"} =>
               SpaceJoined(inChains[i].transcript, inp.sub.captions)
    /\ inp.sub.result.success =>
           SpaceJoined(inp.sub.result.transcript, inp.sub.captions)

\* three segments, the middle one empty, were joined and returned
C12_Witness ==
    /\ inp.sub.result.success
    /\ Len(inp.sub.captions) = 3 /\ inp.sub.captions[2] = <<>>
    /\ Len(inp.sub.result.transcript) = 6

\* C13: a title-metadata request that did not succeed (a non-ok response, or
\* the request itself failing) does not fail the submission: the chain goes
\* on to the caption fetch.
C13_TitleBestEffort ==
    inp.sub.oembed \in {"notok", "reject"} =>
        /\ inp.sub.failedAt # "oembed"
        /\ ~(inp.sub.result.returned /\ inp.sub.capOutcome = "")
        /\ Len(inp.net) >= 2 /\ inp.net[2] = "captions"

\* C14: the step in which the classifier's model call throws shows the thrown
\* error's message as the screen error and leaves the user a way to go on to
\* the chat screen without the classifier: the override dialog is on offer.
C14_ClassifierFailure ==
    [][(inp'.sub.failedAt = "classify" /\ inp.sub.failedAt # "classify") =>
          /\ inp'.error = inp'.sub.thrown
          /\ \E i \in 1..Len(inChains') : inChains'[i].pc = "alert"]_vars

NoCaptionsMessage == "Could not extract transcript from this video. It may not have captions available."

\* the caption provider answered with no list or with an empty one
EmptyCaptions(sub) ==
    sub.capOutcome = "null" \/ (sub.capOutcome = "list" /\ sub.captions = <<>>)

\* C15: when the caption provider returns an empty or missing list, the
\* ProcessResult is a failure carrying the no-captions message, the chat
\* model is not invoked for that submission and nothing is pushed; the step
\* that receives the answer shows the message as the screen error and resets
\* isLoading.
C15_NoCaptions ==
    /\ [](EmptyCaptions(inp.sub) =>
            /\ inp.sub.result.returned /\ ~inp.sub.result.success
            /\ inp.sub.result.error = NoCaptionsMessage
            /\ \A k \in 1..Len(inp.net) : inp.net[k] # "model"
            /\ Len(inp.nav) = inp.sub.navBefore
            /\ inChains = <<>>)
    /\ [][(EmptyCaptions(inp'.sub) /\ ~EmptyCaptions(inp.sub)) =>
            /\ inp'.error = NoCaptionsMessage
            /\ ~inp'.isLoading
            /\ route' = "input"]_vars

\* the provider answered a submission with an empty list
C15_Witness ==
    /\ inp.sub.capOutcome = "list" /\ inp.sub.captions = <<>>
    /\ inp.sub.failedAt = "captions"
    /\ inp.error = NoCaptionsMessage /\ ~inp.isLoading

\* links that pass the host pattern and from which extractVideoId gets nothing
NoIdLinks == {PlaylistLink, VLink}

\* C16: the requests of a submission are made in the order oEmbed, captions,
\* classifier, each only after the step before it succeeded: no request for a
\* link without an extractable identifier, the caption fetch only after the
\* oEmbed request settled, the classifier only after a non-empty caption
\* list, navigation only after the classifier returned. A submission that
\* failed at a step has made no later request, has pushed nothing, and makes
\* no further request afterwards.
C16_ChainOrder ==
    /\ [](/\ IsPrefix(inp.net, <<"oembed", "captions", "model">>)
          /\ inp.sub.link \in NoIdLinks =>
                 (inp.net = <<>> /\ inChains = <<>> /\ Len(inp.nav) = inp.sub.navBefore)
          /\ Len(inp.net) >= 2 => inp.sub.oembed \in {"ok", "notok"}
          /\ Len(inp.net) >= 3 => (inp.sub.capOutcome = "list" /\ inp.sub.captions # <<>>)
          /\ Len(inp.nav) > inp.sub.navBefore =>
                 (Len(inp.net) = 3 /\ inp.sub.content.type # "none"
                                   /\ inp.sub.result.success)
          /\ inp.sub.phase = "failed" =>
                 /\ inChains = <<>>
                 /\ Len(inp.nav) = inp.sub.navBefore
                 /\ Len(inp.net) = CASE inp.sub.failedAt = "extract" -> 0
                                     [] inp.sub.failedAt = "oembed" -> 1
                                     [] inp.sub.failedAt = "captions" -> 2
                                     [] inp.sub.failedAt = "classify" -> 3)
    /\ [][(inp.sub.phase = "failed" /\ inp'.sub = inp.sub) =>
             (inp'.net = inp.net /\ inp'.nav = inp.nav /\ inChains' = <<>>)]_vars

\* a playlist link passed the host pattern and failed at the extraction
C16_Witness ==
    /\ inp.sub.link = PlaylistLink /\ inp.sub.failedAt = "extract"
    /\ inp.sub.result.error = "Invalid YouTube URL format"
    /\ inp.net = <<>>

(***************************************************************************)
(* Claims about CommandDetectionService.                                   *)
(***************************************************************************)
\* C17: an utterance built on a TIMER phrase with the number N ("set a timer
\* for N", "set timer for N", "timer N", "remind me in N") and on no phrase
\* of an earlier type is detected as TIMER with params.minutes = N, and
\* handleCommand announces N minutes.
C17_TimerMinutes ==
    (cmdOut.pc # "idle" /\ cmdIn.expect = "timer") =>
        /\ cmdOut.command.type = "timer"
        /\ cmdOut.command.params.present
        /\ cmdOut.command.params.minutes = cmdIn.n
        /\ cmdOut.pc = "handled" => cmdOut.reply.minutes = cmdIn.n

\* C18: detectCommand always returns a command, and its type is the first
\* type of the declaration that the utterance holds a phrase of, a general
\* question when it holds none: "next step please" is NEXT_STEP, "go back to
\* the previous step" is PREVIOUS_STEP, "what temperature should the oven
\* be?" is a general question.
C18_FirstMatch ==
    cmdOut.pc # "idle" =>
        /\ cmdOut.command.type \in Range(CommandTypes)
        /\ cmdOut.command.type = cmdIn.expect
        /\ cmdIn.text = <<"n", "e", "x", "t", " ", "s", "t", "e", "p", " ", "p", "l", "e", "a", "s", "e">> => cmdOut.command.type = "next_step"
        /\ cmdIn.text = <<"g", "o", " ", "b", "a", "c", "k", " ", "t", "o", " ", "t", "h", "e", " ", "p", "r", "e", "v", "i", "o", "u", "s", " ", "s", "t", "e", "p">> =>
               cmdOut.command.type = "previous_step"
        /\ cmdIn.text = <<"w", "h", "a", "t", " ", "t", "e", "m", "p", "e", "r", "a", "t", "u", "r", "e", " ", "s", "h", "o", "u", "l", "d", " ", "t", "h", "e", " ", "o", "v", "e", "n", " ", "b", "e", "?">> =>
               cmdOut.command.type = "general_question"

\* an utterance with a REPEAT phrase and then a PREVIOUS_STEP phrase was
\* detected as PREVIOUS_STEP
C18_Witness ==
    /\ cmdOut.pc = "detected"
    /\ cmdIn.text = <<"r", "e", "p", "e", "a", "t", " ", "t", "h", "a", "t", " ", "a", "n", "d", " ", "g", "o", " ", "b", "a", "c", "k">>
    /\ cmdOut.command.type = "previous_step"

(***************************************************************************)
(* Claims about the chat screens' requests and chains.                     *)
(***************************************************************************)
\* C19: the message list handed to the chat model for a turn is the system
\* instruction, then every turn the sequence held before this submission
\* (the greeting first, in order, user as 'human', assistant as 'assistant',
\* contents unchanged), then the new user text as the last 'human' message
\* and nowhere else.
C19_RequestComposition ==
    cs.lastTurn.request # <<>> =>
        LET req  == cs.lastTurn.request
            base == cs.lastTurn.base
        IN  /\ Len(req) = Len(base) + 2
            /\ req[1] = Turn("system", SystemPrompt)
            /\ base[1] = Turn("assistant", Greeting(route, params, env.whisper))
            /\ \A i \in 1..Len(base) :
                   /\ req[i + 1].content = base[i].content
                   /\ req[i + 1].role = IF base[i].role = "user" THEN "human"
                                                                ELSE "assistant"
            /\ req[Len(req)] = Turn("human", Trim(cs.lastTurn.input))

\* the request of a voice turn that followed an answered turn
C19_Witness ==
    /\ cs.lastTurn.via = "voice"
    /\ Len(cs.lastTurn.request) = 5
    /\ cs.lastTurn.request[3].role = "human" /\ cs.lastTurn.request[4].role = "assistant"

\* titles of the alerts a chain can end with
ChainEndAlerts == {"Error", "Transcription Error", "No Speech Detected"}

\* C20: a chat screen with no chain in flight is not processing, and its
\* status is empty unless the microphone set it; every step that ends a
\* chain (a text turn or a voice turn, answered or failed anywhere) leaves
\* isProcessing = false and status = '' and shows the user something: an
\* assistant turn appended to the sequence, or an alert.
C20_ChainEndsIdle ==
    /\ [](chains = <<>> =>
            /\ ~cs.isProcessing
            /\ cs.status = "" \/ (cs.status = "Listening..." /\ cs.isRecording))
    /\ [][(\/ Len(chains') < Len(chains)
           \/ (cs'.turns > cs.turns /\ chains' = chains)) =>
            /\ ~cs'.isProcessing
            /\ cs'.status = ""
            /\ \/ /\ Len(cs'.messages) > Len(cs.messages)
                  /\ cs'.messages[Len(cs'.messages)].role = "assistant"
               \/ /\ cs'.messages = cs.messages
                  /\ cs'.alert \in ChainEndAlerts]_vars

\* a voice turn ended because nothing was heard
C20_Witness ==
    /\ chains = <<>> /\ cs.turns >= 1
    /\ cs.alert = "No Speech Detected"
    /\ ~cs.isProcessing /\ cs.status = ""

(***************************************************************************)
(* Claims about the session's use of TextToSpeechService.                  *)
(***************************************************************************)
\* the stopSession calls whose stop() and clearQueue() have both run
DoneCancels == {c \in 1..Len(ttsCalls.cancels) : ttsCalls.cancels[c].doneAt >= 0}

\* C21: the step that completes stop() followed by clearQueue() leaves
\* isSpeaking = false and the queue empty, and an utterance submitted before
\* the stopSession call is never started after that step: if it was started
\* at all, that was before the cancel completed.
C21_CancelIdle ==
    /\ [][(\E c \in 1..Len(ttsCalls.cancels) :
              ttsCalls.cancels[c].doneAt < 0 /\ ttsCalls'.cancels[c].doneAt >= 0) =>
            (~ttsIsSpeaking' /\ ttsQueue' = <<>>)]_vars
    /\ [](\A c \in DoneCancels :
            \A id \in 1..ttsCalls.cancels[c].before :
                FirstIdx(ttsLog, "start", id) <= ttsCalls.cancels[c].doneAt)

\* a stopSession completed while an utterance submitted before it had not
\* been started, and an utterance submitted later was started
C21_Witness ==
    /\ DoneCancels # {}
    /\ \E id \in 1..ttsCalls.cancels[1].before : ~Started(id) /\ ~ttsSubs[id].empty
    /\ \E id \in UtterIds : id > ttsCalls.cancels[1].before /\ Started(id)

(***************************************************************************)
(* Claims about utils/env.ts                                               *)
(***************************************************************************)
EnvCallIds == 1..Len(envCalls)

\* the probes of a call with the given operation
ProbesOf(call, op) == SelectSeq(call.probes, LAMBDA p : p.op = op)

\* C22: a call of loadEnvFromFile made after an earlier call has completed
\* touches the file system no more: it makes no getInfoAsync and no
\* readAsStringAsync.
C22_CachedAfterFirstLoad ==
    \A c \in EnvCallIds : envCalls[c].warm => envCalls[c].probes = <<>>

\* every call probes the locations in their listed order, parses one file at
\* most, the first that exists and could be read, stops there, and writes the
\* hardcoded key only when it found no file
ProbeDiscipline ==
    \A c \in EnvCallIds :
        LET call  == envCalls[c]
            infos == ProbesOf(call, "info")
        IN  /\ \A i \in 1..Len(infos) : infos[i].loc = Locs[i]
            /\ \A i \in 1..Len(call.probes) :
                  call.probes[i].out = "content" =>
                      /\ i = Len(call.probes)
                      /\ \A j \in 1..(i - 1) : call.probes[j].out # "content"
            /\ \A i \in 1..Len(call.probes) :
                  call.probes[i].op = "read" => call.probes[i - 1].out = "exists"
            /\ call.fallback => \A i \in 1..Len(call.probes) :
                                    call.probes[i].out \in {"absent", "error", "exists"}

\* C23: a call probes the locations in their listed order; it parses one file
\* at most, the first that exists and could be read, and stops there; it
\* writes the hardcoded key only when it found no file; and no step takes a
\* GOOGLE_API_KEY that was loaded from a file out of the cache.
C23_KeyResolution ==
    /\ []ProbeDiscipline
    /\ [][(GoogleKey \in envLoaded) => (GoogleKey \in envLoaded')]_vars

\* C30: every call that has returned left isInitialized = true; a location
\* whose check or read threw is followed by the check of the next location,
\* or by the end of the probe when it was the last; and a call that threw
\* elsewhere returns the cache as it is, untouched.
C30_LoaderRobust ==
    /\ []((\E c \in EnvCallIds : envCalls[c].pc = "done") => isInitialized)
    /\ [](\A c \in EnvCallIds :
            LET call == envCalls[c]
            IN  \A i \in 1..Len(call.probes) :
                  call.probes[i].out = "error" =>
                      IF call.probes[i].loc = Locs[Len(Locs)]
                      THEN i = Len(call.probes) /\ call.pc = "done"
                      ELSE /\ i < Len(call.probes)
                           /\ call.probes[i + 1].op = "info"
                           /\ \E k \in 1..(Len(Locs) - 1) :
                                 Locs[k] = call.probes[i].loc /\ Locs[k + 1] = call.probes[i + 1].loc)
    /\ [][Len(envCalls') > Len(envCalls) /\ envCalls'[Len(envCalls')].failed =>
            /\ envCalls'[Len(envCalls')].pc = "done"
            /\ envCalls'[Len(envCalls')].returned = envCache
            /\ envCache' = envCache
            /\ isInitialized' = TRUE]_vars

\* a call met an error at one location, went on and parsed a file at a later
\* one
C30_Witness ==
    \E c \in EnvCallIds :
        /\ envCalls[c].pc = "done" /\ envCalls[c].fileFound
        /\ \E i \in 1..Len(envCalls[c].probes) : envCalls[c].probes[i].out = "error"

(***************************************************************************)
(* Claims about CookingSession                                             *)
(***************************************************************************)
\* C29: over a recipe with at least one step, after any calls of advanceStep
\* and goToPreviousStep (direct or through processUserInput),
\* 0 <= currentStep <= steps.length - 1 and progress.length = currentStep, so
\* getProgress reports 1 <= currentStep <= totalSteps and completedSteps =
\* currentStep - 1; and advanceStep on the last step, goToPreviousStep on the
\* first, return false and leave currentStep and progress as they were.
C29_SessionInvariant ==
    /\ Len(recipe.steps) >= 1
    /\ 0 <= currentStep /\ currentStep <= Len(recipe.steps) - 1
    /\ Len(progress) = currentStep
    /\ 1 <= getProgress.currentStep /\ getProgress.currentStep <= getProgress.totalSteps
    /\ getProgress.completedSteps = getProgress.currentStep - 1
    /\ LET last == cookCalls.last
       IN  /\ (last.op = "advanceStep" /\ last.before.currentStep = Len(recipe.steps) - 1) =>
                 (~last.ret /\ CookState = last.before)
           /\ (last.op = "goToPreviousStep" /\ last.before.currentStep = 0) =>
                 (~last.ret /\ CookState = last.before)

\* advanceStep was just refused on the last step of a recipe of several
\* steps, all earlier steps completed
C29_Witness ==
    /\ Len(recipe.steps) >= 3
    /\ cookCalls.last.op = "advanceStep" /\ ~cookCalls.last.ret
    /\ cookCalls.last.before.currentStep = Len(recipe.steps) - 1
    /\ Len(progress) = Len(recipe.steps) - 1

(***************************************************************************)
(* Claims about the two screens together                                   *)
(***************************************************************************)
\* C24: on a ChatScreen the link screen pushed after a transcript was loaded
\* (hasTranscript = 'true'), the system turn of every request to the model
\* holds the loaded transcript, cut to 8000 characters, and not the
\* placeholder "No transcript available".
C24_TranscriptGrounding ==
    (/\ route = "chat" /\ inp.nav # <<>> /\ params = inp.nav[Len(inp.nav)]
     /\ params.hasTranscript = "true"
     /\ cs.lastTurn.request # <<>>) =>
        LET system == cs.lastTurn.request[1].content
        IN  /\ cs.lastTurn.request[1].role = "system"
            /\ system[3] = "Here is the transcript of the video:"
            /\ system[4] = Substring(inp.sub.result.transcript, 0, TranscriptLimit)
            /\ system[4] # NoTranscript

(***************************************************************************)
(* Claims about the microphone button and the unmount of a chat screen     *)
(***************************************************************************)
\* C25: once the microphone button has been released and the release has
\* been handled (no createAsync is pending any more), the screen does not
\* show isRecording = true with a recording that was created and never
\* stopped and unloaded. (Turns are still allowed, so the release was not cut
\* short by the bound on turns.)
C25_ReleaseStopsRecording ==
    (route = "chat" /\ ~cs.pressed /\ cs.creating = 0 /\ cs.turns < MaxTurns) =>
        ~(cs.isRecording /\ cs.live # {})

\* C26: the step that unmounts a chat screen stops the speech when an
\* utterance was being spoken (isSpeaking = true), and stops and unloads the
\* recording when one was active.
C26_UnmountCleanup ==
    [][(OnChat /\ route' = "closed") =>
          /\ (cs.isSpeaking /\ cs.playing # <<>>) => cs'.playing = <<>>
          /\ cs.recording # 0 => ~(cs.recording \in cs'.live)]_vars

(***************************************************************************)
(* Liveness of the speech queue                                            *)
(***************************************************************************)
\* the normal-priority utterance id, with a text, waits in the queue
Waiting(id) ==
    id <= Len(ttsSubs) /\ ~ttsSubs[id].prio /\ ~ttsSubs[id].empty /\ id \in Range(ttsQueue)

\* C27: when the platform completes every utterance it plays and
\* clearQueue() is never called, every normal-priority utterance with a text
\* that waits in the queue is eventually started, also after a priority
\* speak or a stop().
C27_QueuedEventuallyStarts ==
    \A id \in 1..MaxSessionUtter : Waiting(id) ~> Started(id)

(***************************************************************************)
(* The loading flag of the link screen                                     *)
(***************************************************************************)
\* C28: when no run of handleSubmit is pending any more (its processing has
\* resolved and, where the alert was shown, the alert has been answered),
\* isLoading is false and the Continue button is enabled, whatever the
\* outcome was: a processing error, Cancel, Continue, the direct navigation
\* or an exception.
C28_LoadingReleased == inChains = <<>> => (~inp.isLoading /\ ContinueEnabled(inp))

=============================================================================
